---- MODULE Spec2Model ----
(***************************************************************************)
(* The edge collector of opcua-cloud-bridge: the SQLite data buffer        *)
(* (data_buffer.py), the per-sample processing tasks and the upload loop   *)
(* of the orchestrator (main.py), the InfluxDB sender (cloud_sender.py)    *)
(* and the OPC UA client (opcua_client.py).                                *)
(*                                                                         *)
(* The specifications:                                                     *)
(*   Spec        the pipeline as main.py drives it (collector tasks,       *)
(*               upload loop, maintenance, stop, crash and restart);       *)
(*   FairSpec    the pipeline while the process keeps running, with the    *)
(*               fairness of the asyncio scheduler;                        *)
(*   BufferSpec  the public operations of DataBuffer called by an          *)
(*               arbitrary client, next to the upload loop as reader;      *)
(*   ClientSpec  the single-row appends and mark_batch_processed called    *)
(*               by an arbitrary client, with the maintenance;             *)
(*   OpcSpec     the task of OPCUAClient.start() (opcua_client.py): the    *)
(*               connections to the assets, their retries and probes;      *)
(*   MainSpec    main() from the construction of the orchestrator to the   *)
(*               exit of the process: initialize(), the three tasks, the   *)
(*               signal handler's stop();                                  *)
(*   AnSpec      the analytics processors of one asset                     *)
(*               (analytics_processor.py) fed sample by sample;            *)
(*   FnSpec      the conversions of a buffered row to points, the          *)
(*               negotiation of the security policy, the loading of the    *)
(*               configuration, the maintenance score, the round trip of   *)
(*               a value through the buffer and the tag of a               *)
(*               notification, each applied to one input;                  *)
(*   CompactSpec the appends, mark_batch_processed, delete_batch and the   *)
(*               compaction delete_processed_batches called by an          *)
(*               arbitrary client over more than a day.                    *)
(***************************************************************************)
EXTENDS Integers, FiniteSets, Sequences, TLC

(***************************************************************************)
(* Bounds of the model.  The batch sizes and the eviction limit are the    *)
(* program's 100, 50 and 1000 scaled down; the clock counts hours and a    *)
(* day is scaled to HoursPerDay hours.                                     *)
(***************************************************************************)
MaxPoints == 2
MaxTicks == 1
MaxFaults == 1
MaxApiCalls == 2
MaxBatchRows == 1
MaxAppends == 4
buffer_batch_size == 1
analytics_batch_size == 1
EvictLimit == 1
max_size_rows == 2
HoursPerDay == 2

MaxRounds == 4
opcua_max_retry_attempts == 4
Time0 == 1000

\* The analytics: the program's "more than 10 points", 900 samples, 100
\* values and the 300 s of aggregation_interval scaled down; the windows
\* hold twice the samples of a baseline (1800); the samples processed allow
\* two baselines and one sample more, the seconds that pass two ticks.
OeeMinPoints == 1
BaselineSamples == 2
BaselineMinValues == 1
aggregation_interval == 2
WindowMaxLen == 2 * BaselineSamples
MaxSamples == 2 * BaselineSamples + 1
MaxClock == 2 * aggregation_interval

\* main.py:55
max_retry_attempts == 3

\* opcua_client.py:41 and 396, in tenths of a second
max_retry_delay == 600
CheckInterval == 300

NULL == "NULL"
Tags == {"speed"}
BatchIds == {"b1", "b2"}
Uuids == {"u1", "u2"}
Assets == {"a1", "a2"}
\* for site in self.config.sites: for asset in site.assets
AssetSeq == <<"a1", "a2">>
\* base_retry_delay: 1.0 of __init__ and 5.0, the default of the connection
\* settings, in tenths of a second
BaseDelays == {10, 50}
\* random.uniform(0.1, 0.3), in tenths: the two ends
Jitters == {1, 3}

Max(a, b) == IF a >= b THEN a ELSE b
Min(a, b) == IF a <= b THEN a ELSE b
Ids(rows) == {r.id : r \in rows}
CeilDiv(n, d) == (n + d - 1) \div d

(***************************************************************************)
(* The buffer: the database file.                                          *)
(*   telemetry, analytics   the rows of the two tables                     *)
(*   buffer_metadata        the two counters                               *)
(*   sqlite_sequence        the AUTOINCREMENT high-water marks             *)
(*   st_size                the size of the file, in rows                  *)
(* and the running process.                                                *)
(*   now           the wall clock, in hours                                *)
(*   tasks         the _process_telemetry_async tasks not yet finished     *)
(*   arrivals      the data-change notifications received so far; the      *)
(*                 n-th one carries timestamp n (datetime.utcnow())        *)
(*   pump          the locals of _buffer_sender_loop and of                *)
(*                 _send_batch_with_retry, and where the loop stands       *)
(*   cloud_sender  InfluxDBCloudSender.is_connected                        *)
(*   influx        the remote store: reachable or not, the write handed    *)
(*                 to the ASYNCHRONOUS write_api and not yet resolved, and *)
(*                 the rows whose points it has stored                     *)
(*   orch          the orchestrator: process alive, is_running,            *)
(*                 shutdown_event                                          *)
(*   faults        the faults of the environment so far (an outage of the  *)
(*                 store, a failed buffer operation, a kill, a signal)     *)
(*   hist          history of the run, read by the properties only         *)
(*   opc           the OPCUAClient: is_running, clients, the live          *)
(*                 subscriptions with their numbers of monitored items,    *)
(*                 connection_attempts, last_connection_attempt,           *)
(*                 base_retry_delay, time.time() in tenths of a second,    *)
(*                 where the task of start() stands (pc, idx), and for the *)
(*                 properties the consecutive failed connects of every     *)
(*                 asset and what the last step of the client did          *)
(*   life          the run of main(): phase (created, running, returned),  *)
(*                 where the health loop stands, the exit code, and for    *)
(*                 the properties what made initialize() fail, whether     *)
(*                 the tasks were started and whether a stop() has run     *)
(*   an            the AnalyticsProcessor of one asset: the state of its   *)
(*                 four sub-processors, datetime.utcnow() in seconds, and  *)
(*                 for the properties what the last call returned          *)
(*   call          a conversion or check, its input and its result; in     *)
(*                 CompactSpec the pending delete_processed_batches        *)
(***************************************************************************)
VARIABLES db, now, tasks, arrivals, pump, cloud_sender, influx, orch, faults, hist,
          opc, life, an, call

vars == <<db, now, tasks, arrivals, pump, cloud_sender, influx, orch, faults, hist,
          opc, life, an, call>>

Now0 == HoursPerDay
\* The hours the clock of the compaction's specification runs: a day and
\* an hour.
MaxHours == HoursPerDay + 1

EmptyDb ==
    [telemetry |-> {}, analytics |-> {},
     buffer_metadata |-> [total_telemetry_points |-> 0, total_analytics_records |-> 0],
     sqlite_sequence |-> [telemetry |-> 0, analytics |-> 0],
     st_size |-> 0]

\* stat().st_size after a commit: SQLite (auto_vacuum off, no VACUUM in the
\* code) reuses freed pages and never gives them back, so the file only grows.
StatSize(old, telemetry, analytics) ==
    Max(old, Cardinality(telemetry) + Cardinality(analytics))

Committed(d, telemetry, analytics, meta, seq) ==
    [telemetry |-> telemetry, analytics |-> analytics,
     buffer_metadata |-> meta, sqlite_sequence |-> seq,
     st_size |-> StatSize(d.st_size, telemetry, analytics)]

\* One row of the telemetry table; created_at is CURRENT_TIMESTAMP.
TelemetryRow(id, point, batch_id, t) ==
    [id |-> id, timestamp |-> point.timestamp, tag |-> point.tag,
     created_at |-> t, processed |-> FALSE, batch_id |-> batch_id]

AnalyticsRow(id, result, batch_id, t) ==
    [id |-> id, timestamp |-> result.timestamp,
     created_at |-> t, processed |-> FALSE, batch_id |-> batch_id]

\* ORDER BY created_at ASC LIMIT k: any k rows that no left-out row precedes.
\* Rows with equal created_at are in no defined order.
OldestSets(rows, k) ==
    {S \in SUBSET rows :
        /\ Cardinality(S) = Min(k, Cardinality(rows))
        /\ \A r \in S : \A q \in rows \ S : r.created_at <= q.created_at}

Unprocessed(rows) == {r \in rows : ~r.processed}

\* created_at ('YYYY-MM-DD HH:MM:SS') < cutoff_time (isoformat,
\* 'YYYY-MM-DDTHH:MM:SS.ffffff') compared as TEXT: the dates decide, and on the
\* same date ' ' sorts before 'T'.
Date(t) == t \div HoursPerDay
CreatedBefore(created_at, cutoff) == Date(created_at) <= Date(cutoff)

\* DataBuffer.mark_batch_processed
\* A mark_batch_processed that updates the telemetry table only.
mark_batch_processed_telemetry_only(d, batch_id) ==
    [d EXCEPT
        !.telemetry = {IF batch_id # NULL /\ r.batch_id = batch_id
                       THEN [r EXCEPT !.processed = TRUE] ELSE r
                        : r \in d.telemetry}]

mark_batch_processed(d, batch_id) ==
    [d EXCEPT
        !.telemetry = {IF batch_id # NULL /\ r.batch_id = batch_id
                       THEN [r EXCEPT !.processed = TRUE] ELSE r
                        : r \in d.telemetry},
        !.analytics = {IF batch_id # NULL /\ r.batch_id = batch_id
                       THEN [r EXCEPT !.processed = TRUE] ELSE r
                        : r \in d.analytics}]

\* DataBuffer.delete_batch
delete_batch(d, batch_id) ==
    LET telemetry_count == Cardinality({r \in d.telemetry : r.batch_id = batch_id})
        analytics_count == Cardinality({r \in d.analytics : r.batch_id = batch_id})
    IN Committed(d,
          {r \in d.telemetry : r.batch_id # batch_id},
          {r \in d.analytics : r.batch_id # batch_id},
          [total_telemetry_points |->
               d.buffer_metadata.total_telemetry_points - telemetry_count,
           total_analytics_records |->
               d.buffer_metadata.total_analytics_records - analytics_count],
          d.sqlite_sequence)

RECURSIVE DeleteBatches(_, _)
DeleteBatches(d, batch_ids) ==
    IF batch_ids = {} THEN d
    ELSE LET b == CHOOSE x \in batch_ids : TRUE
         IN DeleteBatches(delete_batch(d, b), batch_ids \ {b})

\* DataBuffer.delete_processed_batches
\* SELECT DISTINCT batch_id FROM telemetry WHERE processed = TRUE AND
\* created_at < ? AND batch_id IS NOT NULL
processed_batch_ids(d, older_than_hours, t) ==
    LET cutoff_time == t - older_than_hours
    IN {r.batch_id : r \in
            {q \in d.telemetry :
                /\ q.processed
                /\ CreatedBefore(q.created_at, cutoff_time)
                /\ q.batch_id # NULL}}

delete_processed_batches(d, older_than_hours, t) ==
    DeleteBatches(d, processed_batch_ids(d, older_than_hours, t))

\* A _check_buffer_size whose eviction takes the oldest unprocessed rows of
\* both tables.
check_buffer_size_both_tables(d, t) ==
    IF d.st_size > max_size_rows
    THEN LET d1 == delete_processed_batches(d, 1, t)
         IN {Committed(d1, d1.telemetry \ S, d1.analytics \ A,
                       d1.buffer_metadata, d1.sqlite_sequence)
               : S \in OldestSets(Unprocessed(d1.telemetry), EvictLimit),
                 A \in OldestSets(Unprocessed(d1.analytics), EvictLimit)}
    ELSE {d}

\* DataBuffer._check_buffer_size: the databases it can leave behind.
check_buffer_size(d, t) ==
    IF d.st_size > max_size_rows
    THEN LET d1 == delete_processed_batches(d, 1, t)
             new_size == d1.st_size
         IN IF new_size > max_size_rows
            THEN {Committed(d1, d1.telemetry \ S, d1.analytics,
                            d1.buffer_metadata, d1.sqlite_sequence)
                    : S \in OldestSets(Unprocessed(d1.telemetry), EvictLimit)}
            ELSE {d1}
    ELSE {d}

\* DataBuffer.save_telemetry_point when nothing raises: INSERT, counter + 1,
\* commit, then _check_buffer_size.
save_telemetry_point(d, point, batch_id, t) ==
    LET id == d.sqlite_sequence.telemetry + 1
        d1 == Committed(d,
                d.telemetry \cup {TelemetryRow(id, point, batch_id, t)},
                d.analytics,
                [d.buffer_metadata EXCEPT !.total_telemetry_points = @ + 1],
                [d.sqlite_sequence EXCEPT !.telemetry = id])
    IN check_buffer_size(d1, t)

\* DataBuffer.save_analytics_result when nothing raises.
save_analytics_result(d, result, batch_id, t) ==
    LET id == d.sqlite_sequence.analytics + 1
        d1 == Committed(d,
                d.telemetry,
                d.analytics \cup {AnalyticsRow(id, result, batch_id, t)},
                [d.buffer_metadata EXCEPT !.total_analytics_records = @ + 1],
                [d.sqlite_sequence EXCEPT !.analytics = id])
    IN check_buffer_size(d1, t)

\* The rows the two INSERT loops of save_batch add inside its transaction.
BatchTelemetryRows(d, telemetry_points, batch_id, t) ==
    {TelemetryRow(d.sqlite_sequence.telemetry + i, telemetry_points[i], batch_id, t)
        : i \in 1..Len(telemetry_points)}

BatchAnalyticsRows(d, analytics_results, batch_id, t) ==
    {AnalyticsRow(d.sqlite_sequence.analytics + i, analytics_results[i], batch_id, t)
        : i \in 1..Len(analytics_results)}

\* The database after the single commit of save_batch (line 231).
save_batch_commit(d, telemetry_points, analytics_results, batch_id, t) ==
    Committed(d,
        d.telemetry \cup BatchTelemetryRows(d, telemetry_points, batch_id, t),
        d.analytics \cup BatchAnalyticsRows(d, analytics_results, batch_id, t),
        [total_telemetry_points |->
             d.buffer_metadata.total_telemetry_points + Len(telemetry_points),
         total_analytics_records |->
             d.buffer_metadata.total_analytics_records + Len(analytics_results)],
        [telemetry |-> d.sqlite_sequence.telemetry + Len(telemetry_points),
         analytics |-> d.sqlite_sequence.analytics + Len(analytics_results)])

\* DataBuffer.save_batch when nothing raises: the commit, then
\* _check_buffer_size.
save_batch(d, telemetry_points, analytics_results, batch_id, t) ==
    check_buffer_size(
        save_batch_commit(d, telemetry_points, analytics_results, batch_id, t), t)

\* A save_batch on a connection in autocommit mode: what was executed before
\* the failure stays.
save_batch_autocommit(d, telemetry_points, analytics_results, batch_id, executed, t) ==
    LET nt == Min(executed, Len(telemetry_points))
        na == Min(executed - nt, Len(analytics_results))
    IN save_batch_commit(d, SubSeq(telemetry_points, 1, nt),
                         SubSeq(analytics_results, 1, na), batch_id, t)

\* DataBuffer.save_batch when a statement or the commit raises: the
\* connection closes with the transaction open, which rolls back the
\* `executed` statements; the database stays as it was.
save_batch_rollback(d, telemetry_points, analytics_results, batch_id, executed, t) == d

\* A get_telemetry_batch with ORDER BY created_at DESC.
get_telemetry_batch_newest(d, batch_size) ==
    {S \in SUBSET Unprocessed(d.telemetry) :
        /\ Cardinality(S) = Min(batch_size, Cardinality(Unprocessed(d.telemetry)))
        /\ \A r \in S : \A q \in Unprocessed(d.telemetry) \ S :
              r.created_at >= q.created_at}

\* DataBuffer.get_telemetry_batch(batch_size), include_processed = False.
get_telemetry_batch(d, batch_size) ==
    OldestSets(Unprocessed(d.telemetry), batch_size)

\* DataBuffer.get_analytics_batch(batch_size), include_processed = False.
get_analytics_batch(d, batch_size) ==
    OldestSets(Unprocessed(d.analytics), batch_size)

(***************************************************************************)
(* The OPC UA client.                                                      *)
(***************************************************************************)
NoEvent == <<"none", NULL>>

\* OPCUAClient.__init__
OpcIdle ==
    [pc |-> "created", idx |-> 0, is_running |-> FALSE, clients |-> {},
     connection_attempts |-> [a \in Assets |-> 0],
     last_connection_attempt |-> [a \in Assets |-> 0],
     base_retry_delay |-> 10, time |-> Time0,
     failures |-> [a \in Assets |-> 0], event |-> NoEvent,
     subscriptions |-> [a \in Assets |-> <<>>]]

RECURSIVE Pow2(_)
Pow2(n) == IF n = 0 THEN 1 ELSE 2 * Pow2(n - 1)

\* OPCUAClient._calculate_retry_delay, with the jitter drawn by the caller
calculate_retry_delay(o, asset_name, jitter) ==
    LET attempt == o.connection_attempts[asset_name]
        delay == Min(o.base_retry_delay * Pow2(attempt), max_retry_delay)
    IN delay + (jitter * delay) \div 10

\* A _should_retry_connection that gives up one attempt later.
should_retry_connection_one_more(o, asset_name, jitter) ==
    LET attempt == o.connection_attempts[asset_name]
    IN IF attempt > opcua_max_retry_attempts
       THEN FALSE
       ELSE o.time - o.last_connection_attempt[asset_name]
               >= calculate_retry_delay(o, asset_name, jitter)

\* OPCUAClient._should_retry_connection
should_retry_connection(o, asset_name, jitter) ==
    LET attempt == o.connection_attempts[asset_name]
    IN IF attempt >= opcua_max_retry_attempts
       THEN FALSE
       ELSE o.time - o.last_connection_attempt[asset_name]
               >= calculate_retry_delay(o, asset_name, jitter)

\* OPCUAClient.connect_to_asset; ok: client.connect() (and the set-up of the
\* security before it) did not raise.
connect_to_asset(o, asset_name, jitter, ok) ==
    IF ~should_retry_connection(o, asset_name, jitter)
    THEN [o EXCEPT !.event = NoEvent]
    ELSE LET o1 == [o EXCEPT
                      !.connection_attempts[asset_name] = @ + 1,
                      !.last_connection_attempt[asset_name] = o.time]
         IN IF ok
            THEN [o1 EXCEPT !.clients = @ \cup {asset_name},
                            !.connection_attempts[asset_name] = 0,
                            !.failures[asset_name] = 0,
                            !.event = <<"connected", asset_name>>]
            ELSE [o1 EXCEPT !.failures[asset_name] = @ + 1,
                            !.event = <<"connect_failed", asset_name>>]

\* OPCUAClient.subscribe_to_asset.  o.subscriptions[asset_name] is <<>> while
\* the asset's session has no subscription and <<n>> for a subscription with
\* n monitored items.  created: get_namespace_index and create_subscription
\* did not raise; subscribed_nodes: the tags of node_mapping whose
\* subscribe_data_change did not raise.  The caller learns
\* subscribed_nodes > 0 and, in start(), does nothing with it.
subscribe_to_asset(o, asset_name, created, subscribed_nodes) ==
    IF asset_name \notin o.clients \/ ~created
    THEN o
    ELSE [o EXCEPT !.subscriptions[asset_name] = <<subscribed_nodes>>]

\* The outcomes of one subscribe_to_asset.
SubscribeOutcomes(o, asset_name) ==
    {subscribe_to_asset(o, asset_name, created, subscribed_nodes) :
        created \in BOOLEAN, subscribed_nodes \in 0..Cardinality(Tags)}

\* OPCUAClient.disconnect_from_asset; ok: client.disconnect() did not raise.
\* The subscription ends with the session it was created on.
disconnect_from_asset(o, asset_name, ok) ==
    IF asset_name \in o.clients /\ ok
    THEN [o EXCEPT !.clients = @ \ {asset_name},
                   !.subscriptions[asset_name] = <<>>]
    ELSE o

\* OPCUAClient.stop; kept: the assets whose client.disconnect() raised.
opcua_stop(o, kept) ==
    [o EXCEPT !.is_running = FALSE, !.clients = kept, !.event = NoEvent,
              !.subscriptions = [a \in Assets |-> IF a \in kept THEN @[a] ELSE <<>>]]

\* The loop over the assets moves on to the next asset, or ends.
NextAsset(o, done) ==
    IF o.idx < Len(AssetSeq)
    THEN [o EXCEPT !.idx = @ + 1]
    ELSE [o EXCEPT !.idx = 0, !.pc = done]

(***************************************************************************)
(* The run of main().                                                      *)
(***************************************************************************)
InitFailures == {"config", "buffer", "cloud_sender"}

\* main() has built the orchestrator and set the signal handlers.  exit_code
\* is -1 as long as the process has not exited.
LifeCreated ==
    [phase |-> "created", health |-> "created", exit_code |-> -1,
     init_failure |-> "none", started |-> FALSE, stopped |-> FALSE]

\* start() has initialized the components and started the three tasks.
LifeRunning ==
    [LifeCreated EXCEPT !.phase = "running", !.health = "wait", !.started = TRUE]

(***************************************************************************)
(* The analytics processors of one asset (analytics_processor.py): the     *)
(* AnalyticsProcessor that _initialize_analytics_processors builds for it  *)
(* and its four sub-processors.                                            *)
(***************************************************************************)
\* The tags of the asset's sub-configurations.  performance_tags and
\* quality_tags keep their default, the empty list.
availability_tags == {"state"}
performance_tags == {}
quality_tags == {}
cycle_count_tag == "cycles"
power_tags == {"power"}
load_tags == {"power"}
vibration_tags == <<"vib">>
temperature_tags == <<"temp">>
pressure_tags == << >>

\* vibration_tags + temperature_tags + pressure_tags
monitored_tags == vibration_tags \o temperature_tags \o pressure_tags
MonitoredTags == {monitored_tags[i] : i \in DOMAIN monitored_tags}

\* A sample value: a finite number, float('nan'), or the string "running".
Num(n) == [kind |-> "num", num |-> n]
NaN == [kind |-> "nan", num |-> 0]
Text == [kind |-> "str", num |-> 0]

\* isinstance(value, (int, float))
IsNumber(value) == value.kind \in {"num", "nan"}

\* The samples the server sends.
Samples ==
    {[tag |-> "state", value |-> Text],
     [tag |-> "cycles", value |-> Num(1)], [tag |-> "cycles", value |-> NaN],
     [tag |-> "vib", value |-> Num(1)], [tag |-> "vib", value |-> Num(2)],
     [tag |-> "temp", value |-> Num(1)], [tag |-> "temp", value |-> Num(2)],
     [tag |-> "power", value |-> Num(1)]}

NoPoint == [tag |-> "none", value |-> Text]

RECURSIVE SumSeq(_)
SumSeq(s) == IF s = << >> THEN 0 ELSE Head(s) + SumSeq(Tail(s))

Range(s) == {s[i] : i \in DOMAIN s}

\* deque(maxlen=n).append(x)
DequeAppend(q, x, maxlen) ==
    IF Len(q) >= maxlen THEN Append(Tail(q), x) ELSE Append(q, x)

\* OEEAnalytics.__init__; the deques (maxlen 3600 and 100) do not fill within
\* MaxSamples samples.
OeeInit == [availability_window |-> << >>, cycle_count_history |-> << >>]

\* OEEAnalytics.calculate_oee on a non-empty availability window, without
\* performance and quality data.
calculate_oee(o) ==
    LET running_time == Cardinality({i \in DOMAIN o.availability_window :
                                        o.availability_window[i]})
    IN [availability |-> (running_time * 100) \div Len(o.availability_window),
        performance |-> 0,
        quality |-> 100]

\* OEEAnalytics.process_telemetry: the new state, whether the call raised
\* (int(value) of a NaN cycle count), and the record returned ({} for None).
oee_process_telemetry(o, point) ==
    LET tag == point.tag
        value == point.value
        is_running == value.kind = "str" \/ value = Num(1)
        is_cycle == /\ tag \notin availability_tags
                    /\ tag \notin performance_tags
                    /\ tag \notin quality_tags
                    /\ tag = cycle_count_tag
                    /\ IsNumber(value)
        o1 == IF tag \in availability_tags
              THEN [o EXCEPT !.availability_window = Append(@, is_running)]
              ELSE IF is_cycle /\ value.kind = "num"
              THEN [o EXCEPT !.cycle_count_history = Append(@, value.num)]
              ELSE o
    IN IF is_cycle /\ value.kind = "nan"
       THEN [self |-> o, raised |-> TRUE, result |-> {}]
       ELSE [self |-> o1, raised |-> FALSE,
             result |-> IF Len(o1.availability_window) > OeeMinPoints
                        THEN {calculate_oee(o1)} ELSE {}]

\* EnergyAnalytics.__init__ at time 0.
EnergyInit == [power_data |-> << >>, last_aggregation |-> 0]

\* EnergyAnalytics.calculate_energy_metrics: {} without power data.
calculate_energy_metrics(e) ==
    IF e.power_data # << >>
    THEN {[avg_power_kw |-> SumSeq(e.power_data) \div Len(e.power_data),
           peak_power_kw |-> CHOOSE m \in Range(e.power_data) :
                                \A v \in Range(e.power_data) : v <= m]}
    ELSE {}

\* EnergyAnalytics.process_telemetry with datetime.utcnow() = current_time:
\* the new state, whether the tick fired, and the record returned.
energy_process_telemetry(e, point, current_time) ==
    LET e1 == IF point.tag \in power_tags /\ IsNumber(point.value)
              THEN [e EXCEPT !.power_data = Append(@, point.value.num)]
              ELSE e
    IN IF current_time - e1.last_aggregation >= aggregation_interval
       THEN [self |-> [e1 EXCEPT !.last_aggregation = current_time],
             fired |-> TRUE,
             result |-> calculate_energy_metrics(e1)]
       ELSE [self |-> e1, fired |-> FALSE, result |-> {}]

\* EnergyKPIAnalytics.__init__ at time 0.
KpiInit == [load_data |-> << >>, last_aggregation |-> 0]

\* EnergyKPIAnalytics.calculate_energy_kpis: the load block; an empty dict
\* without data.
calculate_energy_kpis(k) ==
    IF k.load_data # << >>
    THEN {[avg_load_power_kw |-> SumSeq(k.load_data) \div Len(k.load_data),
           peak_load_power_kw |-> CHOOSE m \in Range(k.load_data) :
                                     \A v \in Range(k.load_data) : v <= m]}
    ELSE {}

\* EnergyKPIAnalytics.process_telemetry
kpi_process_telemetry(k, point, current_time) ==
    LET k1 == IF point.tag \in load_tags /\ IsNumber(point.value)
              THEN [k EXCEPT !.load_data = Append(@, point.value.num)]
              ELSE k
    IN IF current_time - k1.last_aggregation >= aggregation_interval
       THEN [self |-> [k1 EXCEPT !.last_aggregation = current_time],
             fired |-> TRUE,
             result |-> calculate_energy_kpis(k1)]
       ELSE [self |-> k1, fired |-> FALSE, result |-> {}]

\* PredictiveAnalytics.__init__: no window, no baseline.  baseline_stats[t]
\* is {} while t is not a key of the dict.
PredictiveInit ==
    [data_windows |-> [t \in MonitoredTags |-> << >>],
     baseline_stats |-> [t \in MonitoredTags |-> {}],
     baseline_calculated |-> FALSE]

\* The statistics of calculate_baseline, all functions of the values: the
\* mean is sum / count.
Statistics(values) ==
    [count |-> Len(values),
     sum |-> SumSeq(values),
     min |-> CHOOSE m \in Range(values) : \A v \in Range(values) : m <= v,
     max |-> CHOOSE m \in Range(values) : \A v \in Range(values) : v <= m]

\* PredictiveAnalytics.calculate_baseline
calculate_baseline(p, tag) ==
    LET values == p.data_windows[tag]
        stats == [p.baseline_stats EXCEPT ![tag] = {Statistics(values)}]
    IN IF Len(values) >= BaselineMinValues
       THEN [p EXCEPT !.baseline_stats = stats,
                      !.baseline_calculated =
                          IF \A t \in MonitoredTags : stats[t] # {} THEN TRUE ELSE @]
       ELSE p

\* PredictiveAnalytics.detect_anomalies
detect_anomalies(p, tag, current_value) ==
    IF p.baseline_stats[tag] = {} THEN {}
    ELSE {[tag |-> tag, current_value |-> current_value.num,
           baseline |-> CHOOSE s \in p.baseline_stats[tag] : TRUE]}

\* PredictiveAnalytics.process_telemetry without the test of
\* baseline_calculated before detect_anomalies.
predictive_process_telemetry_unguarded(p, point) ==
    LET tag == point.tag
        p1 == [p EXCEPT !.data_windows[tag] =
                           DequeAppend(@, point.value.num, WindowMaxLen)]
        p2 == IF ~p1.baseline_calculated /\ Len(p1.data_windows[tag]) >= BaselineSamples
              THEN calculate_baseline(p1, tag) ELSE p1
    IN IF tag \in MonitoredTags /\ IsNumber(point.value)
       THEN [self |-> p2, result |-> detect_anomalies(p2, tag, point.value)]
       ELSE [self |-> p, result |-> {}]

\* PredictiveAnalytics.process_telemetry with a baseline recomputed also
\* after baseline_calculated is set.
predictive_process_telemetry_rebaseline(p, point) ==
    LET tag == point.tag
        p1 == [p EXCEPT !.data_windows[tag] =
                           DequeAppend(@, point.value.num, WindowMaxLen)]
        p2 == IF Len(p1.data_windows[tag]) >= BaselineSamples
              THEN calculate_baseline(p1, tag) ELSE p1
    IN IF tag \in MonitoredTags /\ IsNumber(point.value)
       THEN [self |-> p2,
             result |-> IF p2.baseline_calculated
                        THEN detect_anomalies(p2, tag, point.value) ELSE {}]
       ELSE [self |-> p, result |-> {}]

\* PredictiveAnalytics.process_telemetry
predictive_process_telemetry(p, point) ==
    LET tag == point.tag
        p1 == [p EXCEPT !.data_windows[tag] =
                           DequeAppend(@, point.value.num, WindowMaxLen)]
        p2 == IF ~p1.baseline_calculated /\ Len(p1.data_windows[tag]) >= BaselineSamples
              THEN calculate_baseline(p1, tag) ELSE p1
    IN IF tag \in MonitoredTags /\ IsNumber(point.value)
       THEN [self |-> p2,
             result |-> IF p2.baseline_calculated
                        THEN detect_anomalies(p2, tag, point.value) ELSE {}]
       ELSE [self |-> p, result |-> {}]

NoAnalytics == [oee |-> {}, energy |-> {}, energy_kpis |-> {}, predictive |-> {}]

\* What the last call of process_telemetry_point did: its sample, whether it
\* raised, whether the two ticks fired, and results['analytics'] (a key with
\* {} is an absent key).
NoCallYet ==
    [point |-> NoPoint, raised |-> FALSE, energy_fired |-> FALSE, kpi_fired |-> FALSE,
     analytics |-> NoAnalytics]

\* clock: datetime.utcnow(), in seconds since the processors were built.
\* processed: the calls of process_telemetry_point so far.
\* first: for every monitored tag its first BaselineSamples numeric samples.
\* energy_emitted_at, kpi_emitted_at: the time of the last record of the
\*   sub-processor, -1 before the first one.
AnIdle ==
    [clock |-> 0, processed |-> 0,
     oee_analytics |-> OeeInit,
     energy_analytics |-> EnergyInit,
     energy_kpi_analytics |-> KpiInit,
     predictive_analytics |-> PredictiveInit,
     first |-> [t \in MonitoredTags |-> << >>],
     energy_emitted_at |-> -1, kpi_emitted_at |-> -1,
     last |-> NoCallYet]

\* AnalyticsProcessor.process_telemetry_point: the four sub-processors in
\* turn; an exception of the first one leaves the call before the others run.
process_telemetry_point(a, point) ==
    LET o == oee_process_telemetry(a.oee_analytics, point)
        e == energy_process_telemetry(a.energy_analytics, point, a.clock)
        k == kpi_process_telemetry(a.energy_kpi_analytics, point, a.clock)
        p == predictive_process_telemetry(a.predictive_analytics, point)
        numeric == point.tag \in MonitoredTags /\ IsNumber(point.value)
    IN IF o.raised
       THEN [a EXCEPT !.processed = @ + 1,
                      !.last = [NoCallYet EXCEPT !.point = point, !.raised = TRUE]]
       ELSE [a EXCEPT
               !.processed = @ + 1,
               !.oee_analytics = o.self,
               !.energy_analytics = e.self,
               !.energy_kpi_analytics = k.self,
               !.predictive_analytics = p.self,
               !.first = IF numeric /\ Len(a.first[point.tag]) < BaselineSamples
                         THEN [@ EXCEPT ![point.tag] = Append(@, point.value.num)]
                         ELSE @,
               !.energy_emitted_at = IF e.result # {} THEN a.clock ELSE @,
               !.kpi_emitted_at = IF k.result # {} THEN a.clock ELSE @,
               !.last = [point |-> point, raised |-> FALSE,
                         energy_fired |-> e.fired, kpi_fired |-> k.fired,
                         analytics |-> [oee |-> o.result, energy |-> e.result,
                                        energy_kpis |-> k.result,
                                        predictive |-> p.result]]]

(***************************************************************************)
(* The conversions and checks applied to one input: the way of a sample    *)
(* value and of an analytics result through the buffer to a point          *)
(* (data_buffer.py, cloud_sender.py), the negotiation of the security      *)
(* policy (opcua_client.py) and the loading of the configuration.          *)
(***************************************************************************)
\* A Python value: its runtime type and its JSON text (for a str, its
\* characters).
PyValues ==
    {[type |-> "float", text |-> "1.5"], [type |-> "int", text |-> "3"],
     [type |-> "bool", text |-> "true"], [type |-> "bool", text |-> "false"],
     [type |-> "str", text |-> "running"], [type |-> "str", text |-> "42"],
     [type |-> "str", text |-> "true"]}

\* The value column of save_telemetry_point:
\* json.dumps(point.value) if not isinstance(point.value, str) else point.value
dumps_value(value) == value.text

\* The type of json.loads(text), "invalid" when it raises JSONDecodeError.
JsonType(text) ==
    IF text \in {"1.5"} THEN "float"
    ELSE IF text \in {"3", "42"} THEN "int"
    ELSE IF text \in {"true", "false"} THEN "bool"
    ELSE "invalid"

\* get_telemetry_batch: telemetry_dict['value'] = json.loads(...), the text
\* kept as a string when it is not valid JSON.
loads_value(text) ==
    IF JsonType(text) = "invalid" THEN [type |-> "str", text |-> text]
    ELSE [type |-> JsonType(text), text |-> text]

\* isinstance(value, (int, float)): bool is a subclass of int.
IsIntOrFloat(type) == type \in {"int", "float", "bool"}

\* InfluxDBCloudSender.telemetry_to_point: the value field of the point.
telemetry_to_point(telemetry) ==
    LET value == telemetry.value
    IN [measurement |-> "telemetry",
        fields |-> IF IsIntOrFloat(value.type)
                   THEN {[name |-> "value_float", type |-> "float"]}
                   ELSE IF value.type = "bool"
                   THEN {[name |-> "value_bool", type |-> "bool"]}
                   ELSE {[name |-> "value_string", type |-> "str"]}]

\* The analytics types of a result and the metrics of each: key and runtime
\* type of the value (calculate_oee, calculate_energy_metrics,
\* detect_anomalies).
AnalyticsTypes == {"oee", "energy", "predictive"}
Metrics(type) ==
    CASE type = "oee" ->
           {[key |-> "availability", type |-> "float"],
            [key |-> "overall_oee", type |-> "float"]}
      [] type = "energy" ->
           {[key |-> "avg_power_kw", type |-> "float"]}
      [] type = "predictive" ->
           {[key |-> "z_score", type |-> "float"],
            [key |-> "is_anomaly", type |-> "bool"],
            [key |-> "tag", type |-> "str"]}

\* The results of process_telemetry_point that main.py saves: a non-empty
\* results['analytics'], given by its keys.
AnalyticsResults ==
    {[asset_name |-> "a1", timestamp |-> 1, analytics |-> types] :
        types \in (SUBSET AnalyticsTypes) \ {{}}}

\* The dict that get_analytics_batch returns for the row that
\* save_analytics_result has written: dict(zip(columns, row)) with
\* analytics_data parsed.
analytics_row_dict(analytics_data) ==
    [id |-> 1,
     timestamp |-> analytics_data.timestamp,
     asset_name |-> analytics_data.asset_name,
     analytics_type |-> analytics_data.analytics,
     analytics_data |-> analytics_data.analytics,
     batch_id |-> NULL,
     created_at |-> 1,
     processed |-> FALSE]

\* The fields that analytics_to_point adds for the metrics of one type.
PointFields(type) ==
    {[key |-> m.key, type |-> IF IsIntOrFloat(m.type) THEN "float" ELSE m.type] :
        m \in {x \in Metrics(type) : x.type \in {"int", "float", "bool", "str"}}}

\* InfluxDBCloudSender.analytics_to_point: one point per type found under
\* the key 'analytics' of the dict.
analytics_to_point(analytics) ==
    LET analytics_data == IF "analytics" \in DOMAIN analytics
                          THEN analytics.analytics ELSE {}
    IN {[analytics_type |-> type, fields |-> PointFields(type)] :
           type \in {t \in analytics_data : Metrics(t) # {}}}

\* The security policies of the endpoints of a server.
PolicyUris == {"None", "Basic128Rsa15", "Basic256Sha256", "Aes128_Sha256_RsaOaep"}
MaxEndpoints == 2
EndpointLists == UNION {[1..n -> PolicyUris] : n \in 0..MaxEndpoints}

\* The first endpoint in the order of the list that offers one of the two
\* policies decides.
RECURSIVE FirstCompatible(_)
FirstCompatible(endpoints) ==
    IF endpoints = << >> THEN "None"
    ELSE IF Head(endpoints) = "Basic256Sha256" THEN "Basic256Sha256"
    ELSE IF Head(endpoints) = "Basic128Rsa15" THEN "Basic128Rsa15"
    ELSE FirstCompatible(Tail(endpoints))

\* OPCUAClient._negotiate_security_policy; "" is no policy set, reachable is
\* whether the temporary client could connect and list the endpoints.
negotiate_security_policy(explicit_policy, env_policy, reachable, endpoints) ==
    IF explicit_policy # "" THEN explicit_policy
    ELSE IF env_policy # "" THEN env_policy
    ELSE IF ~reachable THEN "None"
    ELSE FirstCompatible(endpoints)

NegotiationInputs ==
    [explicit_policy : {"", "Basic128Rsa15"}, env_policy : {"", "None"},
     reachable : BOOLEAN, endpoints : EndpointLists]

\* A configuration file: whether it parses as YAML, whether every required
\* field is there, and for its asset the keys of node_mapping and the tags
\* of two sub-configurations.
ConfigTags == {"t1", "t2"}
Configurations ==
    [parseable : BOOLEAN, complete : BOOLEAN, node_mapping : SUBSET ConfigTags,
     availability_tags : SUBSET ConfigTags, vibration_tags : SUBSET ConfigTags]

\* _load_configuration: yaml.safe_load and BridgeConfiguration(**config_data),
\* which checks the required fields and the types of the fields.
load_configuration(config) ==
    IF config.parseable /\ config.complete THEN "loaded" ELSE "raised"

\* The tags scored, with the keywords that `keyword in tag.lower()` finds in
\* each.
ScoreTags == {"battery_soc", "temperature", "efficiency", "battery_efficiency",
              "vibration"}
Keywords(tag) ==
    CASE tag = "battery_soc" -> {"battery", "soc"}
      [] tag = "temperature" -> {"temperature"}
      [] tag = "efficiency" -> {"efficiency"}
      [] tag = "battery_efficiency" -> {"battery", "efficiency"}
      [] OTHER -> {}

\* self.config.maintenance_thresholds: a threshold of 100 for two tags.
maintenance_thresholds == [t \in {"temperature", "vibration"} |-> 100]

Abs(x) == IF x < 0 THEN 0 - x ELSE x

\* The inputs of the score: z_score in tenths, trend in hundredths, the value
\* in units, all around the band limits.
ScoreInputs ==
    [tag : ScoreTags,
     current_value : {59, 60, 61, 70, 71, 80, 81, 84, 85, 90, 91, 100, 101},
     z_score : {0, 5, 6, 10, 11, 20, 21, 30, 31},
     trend : {-11, -10, -6, -5, -2, -1, 0, 1, 2, 5, 6, 10, 11}]

\* calculate_maintenance_score with 30 points for a value above the
\* threshold.
calculate_maintenance_score_threshold_30(tag, current_value, z_score, trend) ==
    LET z == IF z_score > 30 THEN 30 ELSE IF z_score > 20 THEN 25
             ELSE IF z_score > 10 THEN 15 ELSE IF z_score > 5 THEN 10 ELSE 0
        tr == IF Abs(trend) > 10 THEN 25 ELSE IF Abs(trend) > 5 THEN 18
              ELSE IF Abs(trend) > 1 THEN 12 ELSE 0
        th == IF tag \in DOMAIN maintenance_thresholds
              THEN LET threshold == maintenance_thresholds[tag]
                   IN IF current_value > threshold THEN 30
                      ELSE IF 10 * current_value > threshold * 9 THEN 18
                      ELSE IF 10 * current_value > threshold * 8 THEN 12 ELSE 0
              ELSE 0
        cr == IF Keywords(tag) \cap {"battery", "soc", "temperature"} # {}
              THEN IF current_value > 80 THEN 20 ELSE IF current_value > 70 THEN 15
                   ELSE IF current_value > 60 THEN 10 ELSE 0
              ELSE IF "efficiency" \in Keywords(tag)
              THEN IF current_value < 70 THEN 20 ELSE IF current_value < 80 THEN 15
                   ELSE IF current_value < 85 THEN 10 ELSE 0
              ELSE 0
    IN Min(z + tr + th + cr, 100)

\* PredictiveAnalytics.calculate_maintenance_score: the four if/elif chains
\* add to the score, and min(score, 100.0) is returned.
calculate_maintenance_score(tag, current_value, z_score, trend) ==
    LET z == IF z_score > 30 THEN 30 ELSE IF z_score > 20 THEN 25
             ELSE IF z_score > 10 THEN 15 ELSE IF z_score > 5 THEN 10 ELSE 0
        tr == IF Abs(trend) > 10 THEN 25 ELSE IF Abs(trend) > 5 THEN 18
              ELSE IF Abs(trend) > 1 THEN 12 ELSE 0
        th == IF tag \in DOMAIN maintenance_thresholds
              THEN LET threshold == maintenance_thresholds[tag]
                   IN IF current_value > threshold THEN 25
                      ELSE IF 10 * current_value > threshold * 9 THEN 18
                      ELSE IF 10 * current_value > threshold * 8 THEN 12 ELSE 0
              ELSE 0
        cr == IF Keywords(tag) \cap {"battery", "soc", "temperature"} # {}
              THEN IF current_value > 80 THEN 20 ELSE IF current_value > 70 THEN 15
                   ELSE IF current_value > 60 THEN 10 ELSE 0
              ELSE IF "efficiency" \in Keywords(tag)
              THEN IF current_value < 70 THEN 20 ELSE IF current_value < 80 THEN 15
                   ELSE IF current_value < 85 THEN 10 ELSE 0
              ELSE 0
    IN Min(z + tr + th + cr, 100)

\* The calls: a function and its input, and once it has been applied its
\* result.
(***************************************************************************)
(* DataChangeHandler (opcua_client.py): the tag of a notification.         *)
(* Strings are sequences of characters.                                    *)
(***************************************************************************)
DigitChars == <<"0", "1", "2", "3", "4", "5", "6", "7", "8", "9">>

\* str(n) of a non-negative int
RECURSIVE Str(_)
Str(n) ==
    IF n < 10 THEN <<DigitChars[n + 1]>>
    ELSE Str(n \div 10) \o <<DigitChars[(n % 10) + 1]>>

\* sub in s
Contains(sub, s) ==
    \E i \in 1..(Len(s) - Len(sub) + 1) : SubSeq(s, i, i + Len(sub) - 1) = sub

\* asset.node_mapping of three assets, in the order of the dictionary: full
\* node ids, bare numeric ids, and ids one of which is a prefix of the
\* other; i is the numeric identifier of the node.
NodeMappings ==
    {<<[tag |-> "Temperature", node_id |-> <<"n", "s", "=", "2", ";", "i", "=", "1", "0", "0", "1">>, i |-> 1001],
       [tag |-> "Pressure", node_id |-> <<"n", "s", "=", "2", ";", "i", "=", "1", "0", "0", "2">>, i |-> 1002]>>,
     <<[tag |-> "Temperature", node_id |-> <<"1", "0", "0", "1">>, i |-> 1001],
       [tag |-> "Pressure", node_id |-> <<"1", "0", "0", "2">>, i |-> 1002]>>,
     <<[tag |-> "Speed", node_id |-> <<"n", "s", "=", "2", ";", "i", "=", "1", "0", "0">>, i |-> 100],
       [tag |-> "Torque", node_id |-> <<"n", "s", "=", "2", ";", "i", "=", "1", "0">>, i |-> 10]>>}

\* The ClientHandle of the monitored item created for the k-th tag of the
\* mapping: an integer of the client library's choosing, here the position
\* of the item in the subscription or the numeric identifier of its node.
ClientHandles(node_mapping, k) == {k, node_mapping[k].i}

\* DataChangeHandler._find_tag_name: the first tag of node_mapping whose
\* node id contains str(node_id), None when there is none.
find_tag_name(node_mapping, node_id) ==
    LET hits == {k \in 1..Len(node_mapping) :
                    Contains(Str(node_id), node_mapping[k].node_id)}
    IN IF hits = {} THEN NULL
       ELSE node_mapping[CHOOSE k \in hits : \A j \in hits : k <= j].tag

\* DataChangeHandler.datachange_notification for one monitored item: the tag
\* of the TelemetryPoint handed to the callbacks, NULL when the item is
\* skipped as an unknown node.
datachange_notification(node_mapping, item) ==
    LET node_id == item.ClientHandle
    IN find_tag_name(node_mapping, node_id)

\* The notifications of the monitored items: k is the position in
\* node_mapping of the tag the item was subscribed for.
Notifications ==
    UNION {{[node_mapping |-> m, k |-> k, item |-> [ClientHandle |-> h]] :
               h \in ClientHandles(m, k)} :
             m \in NodeMappings, k \in 1..2}

Calls ==
    {[fn |-> "telemetry_to_point", arg |-> v, done |-> FALSE, result |-> NULL] :
        v \in PyValues}
    \cup {[fn |-> "analytics_to_point", arg |-> a, done |-> FALSE, result |-> NULL] :
        a \in AnalyticsResults}
    \cup {[fn |-> "negotiate_security_policy", arg |-> n, done |-> FALSE, result |-> NULL] :
        n \in NegotiationInputs}
    \cup {[fn |-> "load_configuration", arg |-> c, done |-> FALSE, result |-> NULL] :
        c \in Configurations}
    \cup {[fn |-> "calculate_maintenance_score", arg |-> i, done |-> FALSE, result |-> NULL] :
        i \in ScoreInputs}
    \cup {[fn |-> "get_telemetry_batch", arg |-> v, done |-> FALSE, result |-> NULL] :
        v \in PyValues}
    \cup {[fn |-> "datachange_notification", arg |-> n, done |-> FALSE, result |-> NULL] :
        n \in Notifications}

\* No function has been called.
NoCall == [fn |-> "none", done |-> FALSE]

(***************************************************************************)
(* The initial state: initialize() has succeeded on an empty buffer file.  *)
(***************************************************************************)
PumpIdle ==
    [pc |-> "wait", telemetry_batch |-> {}, analytics_batch |-> {},
     batch_id |-> NULL, attempt |-> 0, success |-> "none", async_result |-> "none"]

\* returned_t, returned_a: the rows still buffered that a batch read of this
\*   run of the process has returned, in a cycle that has not failed.
\* offline: the store went down on an empty buffer and has not come back.
\* burst: the samples in the buffer when the store came back after that,
\*   between two upload cycles; 0
\*   when no such burst is being followed (also once a row is appended).
\* cycles: the upload cycles that reported success since then, counted up to
\*   CeilDiv(burst, buffer_batch_size).
\* failed_t, failed_a: the rows of the batches of the cycles that did not
\*   complete (every attempt failed, or the process was killed between the
\*   batch read and mark_batch_processed) and that no later cycle has read
\*   again.
\* calls: the calls of save_batch so far.
\* returned: what the last call of save_batch returned.
\* saved: for every call of save_batch that returned True, the ids of its
\*   sample rows (t) and of its analytics rows (a).
NoHistory ==
    [returned_t |-> {}, returned_a |-> {}, offline |-> FALSE, burst |-> 0, cycles |-> 0,
     failed_t |-> {}, failed_a |-> {}, calls |-> 0, returned |-> "none", saved |-> {}]

Init ==
    /\ db = EmptyDb
    /\ now = Now0
    /\ tasks = {}
    /\ arrivals = 0
    /\ pump = PumpIdle
    /\ cloud_sender = [is_connected |-> TRUE]
    /\ influx = [up |-> TRUE, inflight |-> {}, telemetry |-> {}, analytics |-> {}]
    /\ orch = [alive |-> TRUE, is_running |-> TRUE, shutdown_event |-> FALSE]
    /\ faults = 0
    /\ hist = NoHistory
    /\ opc = OpcIdle
    /\ life = LifeRunning
    /\ an = AnIdle
    /\ call = NoCall

Tick ==
    /\ now < Now0 + MaxTicks
    /\ now' = now + 1
    /\ UNCHANGED <<an, call, opc, life, db, tasks, arrivals, pump, cloud_sender, influx, orch, faults, hist>>

\* A row leaves the history of returned rows when it leaves its table.
Forget(h, d) ==
    [h EXCEPT !.returned_t = @ \cap Ids(d.telemetry),
              !.returned_a = @ \cap Ids(d.analytics)]

\* The history after an append attempt that left the database as d.
Appended(h, d) ==
    IF d = db THEN h ELSE Forget([h EXCEPT !.burst = 0, !.cycles = 0], d)

\* The history once the cycle of pump p has ended as failed.
CycleEnded(h, p) ==
    IF p.success = "false"
    THEN [h EXCEPT !.returned_t = @ \ Ids(p.telemetry_batch),
                   !.returned_a = @ \ Ids(p.analytics_batch),
                   !.failed_t = @ \cup Ids(p.telemetry_batch),
                   !.failed_a = @ \cup Ids(p.analytics_batch)]
    ELSE h

\* The history once the process is killed with its pump as p.
Killed(h, p) ==
    IF p.pc \in {"read_analytics", "test", "send", "mark"}
    THEN [h EXCEPT !.failed_t = @ \cup Ids(p.telemetry_batch),
                   !.failed_a = @ \cup Ids(p.analytics_batch)]
    ELSE h

NoBurst(h) == [h EXCEPT !.offline = FALSE, !.burst = 0, !.cycles = 0]

\* A buffer operation that raises (the except branch of the operation): it
\* leaves the database as it was.
BufferFault ==
    /\ faults < MaxFaults
    /\ faults' = faults + 1
    /\ db' = db

(***************************************************************************)
(* The collector side: DataChangeHandler.datachange_notification builds a  *)
(* TelemetryPoint and _handle_telemetry_data starts one task for it.       *)
(***************************************************************************)
\* The task runs without suspension up to its first await on the buffer:
\* process_telemetry_point (no await inside) raises and the task ends, returns
\* analytics, or returns none.
Notify(tag) ==
    /\ orch.alive /\ orch.is_running
    /\ arrivals < MaxPoints
    /\ arrivals' = arrivals + 1
    /\ LET point == [timestamp |-> arrivals + 1, tag |-> tag]
       IN \E first \in {"raised", "save_analytics", "save_telemetry"} :
            tasks' = IF first = "raised" THEN tasks
                     ELSE tasks \cup {[point |-> point, pc |-> first]}
    /\ UNCHANGED <<an, call, opc, life, db, now, pump, cloud_sender, influx, orch, faults, hist>>

\* await self.data_buffer.save_analytics_result(analytics_results)
TaskSaveAnalytics(task) ==
    /\ orch.alive
    /\ task \in tasks /\ task.pc = "save_analytics"
    /\ \/ /\ db' \in save_analytics_result(db, task.point, NULL, now)
          /\ faults' = faults
       \/ BufferFault
    /\ hist' = Appended(hist, db')
    /\ tasks' = (tasks \ {task}) \cup {[task EXCEPT !.pc = "save_telemetry"]}
    /\ UNCHANGED <<an, call, opc, life, now, arrivals, pump, cloud_sender, influx, orch>>

\* await self.data_buffer.save_telemetry_point(telemetry_point)
TaskSaveTelemetry(task) ==
    /\ orch.alive
    /\ task \in tasks /\ task.pc = "save_telemetry"
    /\ \/ /\ db' \in save_telemetry_point(db, task.point, NULL, now)
          /\ faults' = faults
       \/ BufferFault
    /\ hist' = Appended(hist, db')
    /\ tasks' = tasks \ {task}
    /\ UNCHANGED <<an, call, opc, life, now, arrivals, pump, cloud_sender, influx, orch>>

(***************************************************************************)
(* A caller of DataBuffer.save_batch: one coroutine of the event loop,     *)
(* advancing one awaited statement at a time inside its transaction.       *)
(***************************************************************************)
SaveBatchCalls == {task \in tasks : task.pc = "save_batch"}

\* The statements of one save_batch: the INSERTs and the two UPDATEs.
Statements(task) == Len(task.telemetry_points) + Len(task.analytics_results) + 2

Points(n) == [i \in 1..n |-> [timestamp |-> i, tag |-> CHOOSE tag \in Tags : TRUE]]

\* save_batch(telemetry_points, analytics_results, batch_id) is called; a
\* second writer would wait for the lock of the first.
ApiSaveBatch(nt, na, batch_id) ==
    /\ orch.alive
    /\ hist.calls < MaxApiCalls
    /\ SaveBatchCalls = {}
    /\ tasks' = tasks \cup {[pc |-> "save_batch",
                             telemetry_points |-> Points(nt),
                             analytics_results |-> Points(na),
                             batch_id |-> batch_id,
                             executed |-> 0]}
    /\ hist' = [hist EXCEPT !.calls = @ + 1, !.returned = "none"]
    /\ UNCHANGED <<an, call, opc, life, db, now, arrivals, pump, cloud_sender, influx, orch, faults>>

\* await db.execute(...): not committed, no other connection sees it.
SaveBatchExecute(task) ==
    /\ orch.alive
    /\ task \in SaveBatchCalls
    /\ task.executed < Statements(task)
    /\ tasks' = (tasks \ {task}) \cup {[task EXCEPT !.executed = @ + 1]}
    /\ UNCHANGED <<an, call, opc, life, db, now, arrivals, pump, cloud_sender, influx, orch, faults, hist>>

\* A statement or the commit raises: except Exception, return False.
SaveBatchFail(task) ==
    /\ orch.alive
    /\ task \in SaveBatchCalls
    /\ faults < MaxFaults
    /\ faults' = faults + 1
    /\ db' = save_batch_rollback(db, task.telemetry_points, task.analytics_results,
                                 task.batch_id, task.executed, now)
    /\ tasks' = tasks \ {task}
    /\ hist' = Forget([hist EXCEPT !.returned = "false"], db')
    /\ UNCHANGED <<an, call, opc, life, now, arrivals, pump, cloud_sender, influx, orch>>

\* await db.commit(), then _check_buffer_size, return True.
SaveBatchCommit(task) ==
    /\ orch.alive
    /\ task \in SaveBatchCalls
    /\ task.executed = Statements(task)
    /\ db' \in save_batch(db, task.telemetry_points, task.analytics_results,
                           task.batch_id, now)
    /\ tasks' = tasks \ {task}
    /\ hist' = Forget([hist EXCEPT
                         !.returned = "true",
                         !.saved = @ \cup
                            {[t |-> Ids(BatchTelemetryRows(db, task.telemetry_points,
                                                           task.batch_id, now)),
                              a |-> Ids(BatchAnalyticsRows(db, task.analytics_results,
                                                           task.batch_id, now))]}],
                       db')
    /\ UNCHANGED <<an, call, opc, life, now, arrivals, pump, cloud_sender, influx, orch, faults>>

(***************************************************************************)
(* A caller of the single-row operations of DataBuffer, with or without a  *)
(* batch_id, and of mark_batch_processed.                                  *)
(***************************************************************************)
Appends == db.sqlite_sequence.telemetry + db.sqlite_sequence.analytics

\* save_telemetry_point(point, batch_id)
ApiSaveTelemetryPoint(tag, batch_id) ==
    /\ Appends < MaxAppends
    /\ LET point == [timestamp |-> db.sqlite_sequence.telemetry + 1, tag |-> tag]
       IN \/ /\ db' \in save_telemetry_point(db, point, batch_id, now)
             /\ faults' = faults
          \/ BufferFault
    /\ hist' = Appended(hist, db')
    /\ UNCHANGED <<an, call, opc, life, now, tasks, arrivals, pump, cloud_sender, influx, orch>>

\* save_analytics_result(analytics_data, batch_id)
ApiSaveAnalyticsResult(batch_id) ==
    /\ Appends < MaxAppends
    /\ LET result == [timestamp |-> db.sqlite_sequence.analytics + 1]
       IN \/ /\ db' \in save_analytics_result(db, result, batch_id, now)
             /\ faults' = faults
          \/ BufferFault
    /\ hist' = Appended(hist, db')
    /\ UNCHANGED <<an, call, opc, life, now, tasks, arrivals, pump, cloud_sender, influx, orch>>

\* mark_batch_processed(batch_id)
ApiMarkBatchProcessed(batch_id) ==
    /\ \/ /\ db' = mark_batch_processed(db, batch_id)
          /\ faults' = faults
       \/ BufferFault
    /\ UNCHANGED <<an, call, opc, life, now, tasks, arrivals, pump, cloud_sender, influx, orch, hist>>

\* delete_batch(batch_id)
ApiDeleteBatch(batch_id) ==
    /\ \/ /\ db' = delete_batch(db, batch_id)
          /\ faults' = faults
       \/ BufferFault
    /\ hist' = Forget(hist, db')
    /\ UNCHANGED <<an, call, opc, life, now, tasks, arrivals, pump, cloud_sender, influx, orch>>

\* A caller awaits delete_processed_batches(older_than_hours).
ApiCallDeleteProcessedBatches(older_than_hours) ==
    /\ call.fn = "none"
    /\ call' = [fn |-> "delete_processed_batches", arg |-> older_than_hours,
                done |-> FALSE]
    /\ UNCHANGED <<an, opc, life, db, now, tasks, arrivals, pump, cloud_sender, influx,
                   orch, faults, hist>>

\* delete_processed_batches(older_than_hours) runs and returns to its
\* caller.  The SELECT can raise (nothing is deleted), and so can one
\* delete_batch of the loop, which returns False and leaves its batch.
ApiDeleteProcessedBatches ==
    /\ call.fn = "delete_processed_batches" /\ ~call.done
    /\ LET batch_ids == processed_batch_ids(db, call.arg, now)
       IN \/ /\ db' = delete_processed_batches(db, call.arg, now)
             /\ faults' = faults
          \/ BufferFault
          \/ /\ faults < MaxFaults
             /\ faults' = faults + 1
             /\ \E failed \in batch_ids :
                   db' = DeleteBatches(db, batch_ids \ {failed})
    /\ call' = NoCall
    /\ hist' = Forget(hist, db')
    /\ UNCHANGED <<an, opc, life, now, tasks, arrivals, pump, cloud_sender, influx, orch>>

\* An hour passes, beyond the day that makes a stored row a day old.
HourPasses ==
    /\ now < Now0 + MaxHours
    /\ now' = now + 1
    /\ UNCHANGED <<an, call, opc, life, db, tasks, arrivals, pump, cloud_sender, influx,
                   orch, faults, hist>>

(***************************************************************************)
(* The upload loop, _buffer_sender_loop, one action per await.             *)
(***************************************************************************)
\* str(uuid.uuid4()): an id no row and no earlier cycle carries.
FreshUuid(previous) == CHOOSE u \in Uuids : u # previous

\* The in-memory copies of the rows with item['batch_id'] = batch_id.
Tagged(rows, batch_id) == {[r EXCEPT !.batch_id = batch_id] : r \in rows}

\* The rows whose points send_mixed_batch hands to the write_api: a point
\* for every sample row, and the points of analytics_to_point for the
\* analytics rows.
Payload(p) ==
    [t |-> Ids(p.telemetry_batch),
     a |-> Ids({r \in p.analytics_batch : analytics_to_point(r) # {}})]

\* get_telemetry_batch(batch_size=100); a read that raises returns [].
PumpReadTelemetry ==
    /\ orch.alive
    /\ pump.pc = "wait"
    /\ orch.is_running /\ ~orch.shutdown_event
    /\ \E batch \in get_telemetry_batch(db, buffer_batch_size)
                      \cup (IF faults < MaxFaults THEN {{}} ELSE {}) :
        /\ faults' = IF batch = {} /\ Unprocessed(db.telemetry) # {}
                     THEN faults + 1 ELSE faults
        /\ pump' = [pump EXCEPT !.pc = "read_analytics",
                                !.telemetry_batch = batch,
                                !.analytics_batch = {},
                                !.success = "none",
                                !.async_result = "none"]
        /\ hist' = [hist EXCEPT !.returned_t = @ \cup Ids(batch)]
    /\ UNCHANGED <<an, call, opc, life, db, now, tasks, arrivals, cloud_sender, influx, orch>>

\* get_analytics_batch(batch_size=50), then the batch_id of the cycle, set on
\* the items in memory.  Both batches empty: nothing to send.
PumpReadAnalytics ==
    /\ orch.alive
    /\ pump.pc = "read_analytics"
    /\ \E batch \in get_analytics_batch(db, analytics_batch_size)
                      \cup (IF faults < MaxFaults THEN {{}} ELSE {}) :
        /\ faults' = IF batch = {} /\ Unprocessed(db.analytics) # {}
                     THEN faults + 1 ELSE faults
        /\ hist' = [hist EXCEPT !.returned_a = @ \cup Ids(batch),
                                 !.failed_t = @ \ Ids(pump.telemetry_batch),
                                 !.failed_a = @ \ Ids(batch)]
        /\ IF pump.telemetry_batch # {} \/ batch # {}
           THEN LET batch_id == FreshUuid(pump.batch_id)
                IN pump' = [pump EXCEPT
                              !.pc = "test",
                              !.batch_id = batch_id,
                              !.telemetry_batch = Tagged(@, batch_id),
                              !.analytics_batch = Tagged(batch, batch_id),
                              !.attempt = 0]
           ELSE pump' = [pump EXCEPT !.pc = "wait", !.analytics_batch = batch]
    /\ UNCHANGED <<an, call, opc, life, db, now, tasks, arrivals, cloud_sender, influx, orch>>

\* An AttemptFailed that allows one attempt more than max_retry_attempts.
AttemptFailed_one_more(p) ==
    IF p.attempt < max_retry_attempts
    THEN [p EXCEPT !.pc = "test", !.attempt = @ + 1]
    ELSE [p EXCEPT !.pc = "wait", !.attempt = 0, !.success = "false"]

\* The end of one attempt of _send_batch_with_retry that did not send.
AttemptFailed(p) ==
    IF p.attempt < max_retry_attempts - 1
    THEN [p EXCEPT !.pc = "test", !.attempt = @ + 1]
    ELSE [p EXCEPT !.pc = "wait", !.attempt = 0, !.success = "false"]

\* What a call of write_api.write can do: with the ASYNCHRONOUS write_api it
\* returns an ApplyResult at once; it can raise only while the store is down.
WriteCallReturns == IF influx.up THEN {TRUE} ELSE {TRUE, FALSE}

\* cloud_sender.test_connection(): connect() (health must pass) when not
\* connected, else the write of a test point.
test_connection == IF cloud_sender.is_connected THEN WriteCallReturns ELSE {influx.up}

PumpTestConnection ==
    /\ orch.alive
    /\ pump.pc = "test"
    /\ \E ok \in test_connection :
        /\ cloud_sender' = [is_connected |-> cloud_sender.is_connected \/ ok]
        /\ pump' = IF ok THEN [pump EXCEPT !.pc = "send"] ELSE AttemptFailed(pump)
    /\ hist' = CycleEnded(hist, pump')
    /\ UNCHANGED <<an, call, opc, life, db, now, tasks, arrivals, influx, orch, faults>>

\* cloud_sender.send_mixed_batch(): False when not connected or when the call
\* raises; otherwise the points are handed to the write_api and it is True.
send_mixed_batch == IF cloud_sender.is_connected THEN WriteCallReturns ELSE {FALSE}

\* The write of the cycle before has resolved by now: the loop waits 30 s
\* between cycles and the client's timeout is 30 s.
PumpSend ==
    /\ orch.alive
    /\ pump.pc = "send"
    /\ influx.inflight = {}
    /\ \E ok \in send_mixed_batch :
        IF ok
        THEN /\ influx' = [influx EXCEPT !.inflight = {Payload(pump)}]
             /\ pump' = [pump EXCEPT !.pc = "mark", !.attempt = 0, !.success = "true",
                                     !.async_result = "pending"]
        ELSE /\ influx' = influx
             /\ pump' = AttemptFailed(pump)
    /\ hist' = CycleEnded(hist, pump')
    /\ UNCHANGED <<an, call, opc, life, db, now, tasks, arrivals, cloud_sender, orch, faults>>

\* await self.data_buffer.mark_batch_processed(batch_id)
PumpMark ==
    /\ orch.alive
    /\ pump.pc = "mark"
    /\ \/ /\ db' = mark_batch_processed(db, pump.batch_id)
          /\ faults' = faults
       \/ BufferFault
    /\ pump' = [pump EXCEPT !.pc = "delete"]
    /\ UNCHANGED <<an, call, opc, life, now, tasks, arrivals, cloud_sender, influx, orch, hist>>

\* await self.data_buffer.delete_batch(batch_id)
PumpDelete ==
    /\ orch.alive
    /\ pump.pc = "delete"
    /\ \/ /\ db' = delete_batch(db, pump.batch_id)
          /\ faults' = faults
       \/ BufferFault
    /\ hist' = Forget([hist EXCEPT !.cycles =
                            IF hist.burst > 0
                            THEN Min(@ + 1, CeilDiv(hist.burst, buffer_batch_size))
                            ELSE @], db')
    /\ pump' = [pump EXCEPT !.pc = "wait"]
    /\ UNCHANGED <<an, call, opc, life, now, tasks, arrivals, cloud_sender, influx, orch>>

\* while self.is_running / shutdown_event.is_set(): break
PumpExit ==
    /\ orch.alive
    /\ pump.pc = "wait"
    /\ ~orch.is_running \/ orch.shutdown_event
    /\ pump' = [pump EXCEPT !.pc = "stopped"]
    /\ UNCHANGED <<an, call, opc, life, db, now, tasks, arrivals, cloud_sender, influx, orch, faults, hist>>

\* _perform_maintenance in the health loop
Maintenance ==
    /\ orch.alive
    /\ life.health = "wait"
    /\ orch.is_running /\ ~orch.shutdown_event
    /\ db' = delete_processed_batches(db, HoursPerDay, now)
    /\ hist' = Forget(hist, db')
    /\ UNCHANGED <<an, call, opc, life, now, tasks, arrivals, pump, cloud_sender, influx, orch, faults>>

(***************************************************************************)
(* The remote store and the write the write_api still holds.               *)
(***************************************************************************)
StoreDown ==
    /\ influx.up
    /\ faults < MaxFaults
    /\ faults' = faults + 1
    /\ influx' = [influx EXCEPT !.up = FALSE]
    /\ hist' = [NoBurst(hist) EXCEPT !.offline = (db.telemetry = {} /\ db.analytics = {})]
    /\ UNCHANGED <<an, call, opc, life, db, now, tasks, arrivals, pump, cloud_sender, orch>>

StoreUp ==
    /\ ~influx.up
    /\ influx' = [influx EXCEPT !.up = TRUE]
    /\ hist' = [hist EXCEPT !.offline = FALSE,
                             !.burst = IF hist.offline /\ pump.pc = "wait"
                                       THEN Cardinality(Unprocessed(db.telemetry))
                                       ELSE 0,
                             !.cycles = 0]
    /\ UNCHANGED <<an, call, opc, life, db, now, tasks, arrivals, pump, cloud_sender, orch, faults>>

\* The write_api's worker performs the write: stored when the store is
\* reachable, lost otherwise.  Nobody reads the ApplyResult.
ResolveWrite(w) ==
    /\ w \in influx.inflight
    /\ influx' = IF influx.up
                 THEN [influx EXCEPT !.inflight = {},
                                     !.telemetry = @ \cup w.t,
                                     !.analytics = @ \cup w.a]
                 ELSE [influx EXCEPT !.inflight = {}]
    /\ pump' = IF pump.async_result = "pending"
               THEN [pump EXCEPT !.async_result = IF influx.up THEN "acked" ELSE "lost"]
               ELSE pump
    /\ UNCHANGED <<an, call, opc, life, db, now, tasks, arrivals, cloud_sender, orch, faults, hist>>

(***************************************************************************)
(* The life of the process.                                                *)
(***************************************************************************)
\* EdgeCollectorOrchestrator.stop(), from the signal handler
\* (asyncio.create_task(self.stop())), at any time from setup_signal_handlers
\* on: before initialize() has completed the components are None or not
\* connected, and stop() sets the two flags only.
Stop ==
    /\ orch.alive
    /\ orch.is_running \/ life.phase = "created"
    /\ faults < MaxFaults
    /\ faults' = faults + 1
    /\ orch' = [orch EXCEPT !.is_running = FALSE, !.shutdown_event = TRUE]
    /\ \E kept \in SUBSET opc.clients : opc' = opcua_stop(opc, kept)
    /\ cloud_sender' = [is_connected |-> FALSE]
    /\ life' = [life EXCEPT !.stopped = TRUE]
    /\ hist' = NoBurst(hist)
    /\ UNCHANGED <<an, call, db, now, tasks, arrivals, pump, influx>>

\* start() returns once the loops have ended; asyncio.run drops what is left.
Exit ==
    /\ orch.alive /\ ~orch.is_running
    /\ pump.pc = "stopped"
    /\ orch' = [orch EXCEPT !.alive = FALSE]
    /\ tasks' = {}
    /\ pump' = [PumpIdle EXCEPT !.pc = "stopped"]
    /\ influx' = [influx EXCEPT !.inflight = {}]
    /\ UNCHANGED <<an, call, opc, life, db, now, arrivals, cloud_sender, faults, hist>>

\* The process is killed: only the database file survives.
Crash ==
    /\ orch.alive
    /\ faults < MaxFaults
    /\ faults' = faults + 1
    /\ orch' = [orch EXCEPT !.alive = FALSE, !.is_running = FALSE]
    /\ tasks' = {}
    /\ pump' = [PumpIdle EXCEPT !.pc = "stopped"]
    /\ cloud_sender' = [is_connected |-> FALSE]
    /\ influx' = [influx EXCEPT !.inflight = {}]
    /\ hist' = Killed(NoBurst(hist), pump)
    /\ UNCHANGED <<an, call, opc, life, db, now, arrivals>>

\* main() again: initialize() needs cloud_sender.connect() to succeed.
Restart ==
    /\ ~orch.alive
    /\ influx.up
    /\ orch' = [alive |-> TRUE, is_running |-> TRUE, shutdown_event |-> FALSE]
    /\ pump' = PumpIdle
    /\ cloud_sender' = [is_connected |-> TRUE]
    /\ hist' = [hist EXCEPT !.returned_t = {}, !.returned_a = {}]
    /\ opc' = OpcIdle
    /\ life' = LifeRunning
    /\ UNCHANGED <<an, call, db, now, tasks, arrivals, influx, faults>>

Next ==
    \/ Tick
    \/ \E tag \in Tags : Notify(tag)
    \/ \E task \in tasks : TaskSaveAnalytics(task)
    \/ \E task \in tasks : TaskSaveTelemetry(task)
    \/ PumpReadTelemetry
    \/ PumpReadAnalytics
    \/ PumpTestConnection
    \/ PumpSend
    \/ PumpMark
    \/ PumpDelete
    \/ PumpExit
    \/ Maintenance
    \/ StoreDown
    \/ StoreUp
    \/ \E w \in influx.inflight : ResolveWrite(w)
    \/ Stop
    \/ Exit
    \/ Crash
    \/ Restart

Spec == Init /\ [][Next]_vars

(***************************************************************************)
(* The pipeline while the process keeps running, within one hour of the    *)
(* clock: no signal, no kill.  The event loop runs every task that can     *)
(* run, the write_api's worker resolves every write, and an outage of the  *)
(* store ends.                                                             *)
(***************************************************************************)
PumpStep ==
    \/ PumpReadTelemetry
    \/ PumpReadAnalytics
    \/ PumpTestConnection
    \/ PumpSend
    \/ PumpMark
    \/ PumpDelete

TaskStep ==
    \/ \E task \in tasks : TaskSaveAnalytics(task)
    \/ \E task \in tasks : TaskSaveTelemetry(task)

WriteStep == \E w \in influx.inflight : ResolveWrite(w)

RunningNext ==
    \/ \E tag \in Tags : Notify(tag)
    \/ TaskStep
    \/ PumpStep
    \/ StoreDown
    \/ StoreUp
    \/ WriteStep

(***************************************************************************)
(* The buffer under a caller of save_batch, with the upload loop as the    *)
(* reader of the buffer.                                                   *)
(***************************************************************************)
SaveBatchStep ==
    \E task \in tasks :
        \/ SaveBatchExecute(task)
        \/ SaveBatchFail(task)
        \/ SaveBatchCommit(task)

BufferNext ==
    \/ Tick
    \/ \E nt, na \in 0..MaxBatchRows : \E batch_id \in BatchIds :
          ApiSaveBatch(nt, na, batch_id)
    \/ SaveBatchStep
    \/ PumpStep
    \/ WriteStep

BufferSpec == Init /\ [][BufferNext]_vars

(***************************************************************************)
(* The buffer under a caller of its single-row appends and of              *)
(* mark_batch_processed, with the maintenance of the health loop.          *)
(***************************************************************************)
ClientNext ==
    \/ Tick
    \/ \E tag \in Tags : \E batch_id \in {NULL} \cup BatchIds :
          ApiSaveTelemetryPoint(tag, batch_id)
    \/ \E batch_id \in {NULL} \cup BatchIds : ApiSaveAnalyticsResult(batch_id)
    \/ \E batch_id \in BatchIds : ApiMarkBatchProcessed(batch_id)
    \/ Maintenance

ClientSpec == Init /\ [][ClientNext]_vars

(***************************************************************************)
(* The buffer under a caller of the single-row appends, of                 *)
(* mark_batch_processed, of delete_batch and of the compaction             *)
(* delete_processed_batches, over more than a day of the clock.            *)
(***************************************************************************)
CompactNext ==
    \/ HourPasses
    \/ \E tag \in Tags : \E batch_id \in {NULL} \cup BatchIds :
          ApiSaveTelemetryPoint(tag, batch_id)
    \/ \E batch_id \in {NULL} \cup BatchIds : ApiSaveAnalyticsResult(batch_id)
    \/ \E batch_id \in {NULL} \cup BatchIds : ApiMarkBatchProcessed(batch_id)
    \/ \E batch_id \in BatchIds : ApiDeleteBatch(batch_id)
    \/ \E older_than_hours \in {1, HoursPerDay} :
          ApiCallDeleteProcessedBatches(older_than_hours)
    \/ ApiDeleteProcessedBatches

CompactSpec == Init /\ [][CompactNext]_vars

FairSpec ==
    /\ Init
    /\ [][RunningNext]_vars
    /\ WF_vars(PumpStep)
    /\ WF_vars(TaskStep)
    /\ WF_vars(WriteStep)
    /\ WF_vars(StoreUp)

(***************************************************************************)
(* The task of OPCUAClient.start().                                        *)
(***************************************************************************)
\* load_config(), self.is_running = True
CollectorStart ==
    /\ orch.alive /\ life.phase = "running"
    /\ opc.pc = "created"
    /\ \E base \in BaseDelays :
         opc' = [opc EXCEPT !.is_running = TRUE, !.base_retry_delay = base,
                            !.pc = "connect", !.idx = 1, !.event = NoEvent]
    /\ UNCHANGED <<an, call, db, now, tasks, arrivals, pump, cloud_sender, influx, orch, faults,
                   hist, life>>

\* if await self.connect_to_asset(asset), for the next asset of the
\* configuration; after the last one the loop over connected_assets begins.
CollectorConnect ==
    /\ orch.alive /\ life.phase = "running"
    /\ opc.pc = "connect"
    /\ \E jitter \in Jitters, ok \in BOOLEAN :
         LET o == NextAsset(connect_to_asset(opc, AssetSeq[opc.idx], jitter, ok),
                            "subscribe")
         IN opc' = IF o.pc = "subscribe" THEN [o EXCEPT !.idx = 1] ELSE o
    /\ UNCHANGED <<an, call, db, now, tasks, arrivals, pump, cloud_sender, influx, orch, faults,
                   hist, life>>

\* if await self.subscribe_to_asset(asset), for the next asset of
\* connected_assets: the assets the connect phase added to self.clients (for
\* one that stop() has removed since, subscribe_to_asset returns False at
\* once).
CollectorSubscribe ==
    /\ orch.alive /\ life.phase = "running"
    /\ opc.pc = "subscribe"
    /\ \E o \in SubscribeOutcomes(opc, AssetSeq[opc.idx]) :
         opc' = NextAsset([o EXCEPT !.event = NoEvent], "loop")
    /\ UNCHANGED <<an, call, db, now, tasks, arrivals, pump, cloud_sender, influx, orch, faults,
                   hist, life>>

\* while self.is_running: await asyncio.sleep(30)
CollectorSleep ==
    /\ orch.alive /\ life.phase = "running"
    /\ opc.pc = "loop"
    /\ opc.is_running => opc.time < Time0 + MaxRounds * CheckInterval
    /\ opc' = IF opc.is_running
              THEN [opc EXCEPT !.time = @ + CheckInterval, !.pc = "check", !.idx = 1,
                               !.event = NoEvent]
              ELSE [opc EXCEPT !.pc = "finally", !.event = NoEvent]
    /\ UNCHANGED <<an, call, db, now, tasks, arrivals, pump, cloud_sender, influx, orch, faults,
                   hist, life>>

\* The body of the loop for the next asset: reconnect an asset that is not
\* in self.clients and subscribe when the connection succeeded, probe one
\* that is in self.clients and disconnect it when the probe fails.
CollectorCheck ==
    /\ orch.alive /\ life.phase = "running"
    /\ opc.pc = "check"
    /\ LET asset_name == AssetSeq[opc.idx]
       IN IF asset_name \notin opc.clients
          THEN \E jitter \in Jitters :
                 IF should_retry_connection(opc, asset_name, jitter)
                 THEN \E jitter2 \in Jitters, ok \in BOOLEAN :
                        \E o \in SubscribeOutcomes(
                                    connect_to_asset(opc, asset_name, jitter2, ok),
                                    asset_name) :
                          opc' = NextAsset(o, "loop")
                 ELSE opc' = NextAsset([opc EXCEPT !.event = NoEvent], "loop")
          ELSE \E alive \in BOOLEAN :
                 IF alive
                 THEN opc' = NextAsset([opc EXCEPT !.event = NoEvent], "loop")
                 ELSE \E ok \in BOOLEAN :
                        opc' = NextAsset(
                                 [disconnect_from_asset(opc, asset_name, ok)
                                    EXCEPT !.event = <<"probe_failed", asset_name>>],
                                 "loop")
    /\ UNCHANGED <<an, call, db, now, tasks, arrivals, pump, cloud_sender, influx, orch, faults,
                   hist, life>>

\* finally: await self.stop()
CollectorFinally ==
    /\ orch.alive /\ life.phase = "running"
    /\ opc.pc = "finally"
    /\ \E kept \in SUBSET opc.clients :
         opc' = [opcua_stop(opc, kept) EXCEPT !.pc = "stopped"]
    /\ UNCHANGED <<an, call, db, now, tasks, arrivals, pump, cloud_sender, influx, orch, faults,
                   hist, life>>

CollectorStep ==
    \/ CollectorStart
    \/ CollectorConnect
    \/ CollectorSubscribe
    \/ CollectorSleep
    \/ CollectorCheck
    \/ CollectorFinally

OpcNext ==
    \/ CollectorStep
    \/ Stop

OpcSpec == Init /\ [][OpcNext]_vars

(***************************************************************************)
(* main(): start() from the construction of the orchestrator to the        *)
(* return, with the three tasks on an empty buffer.                        *)
(***************************************************************************)
\* start() catches every Exception of initialize() and of the tasks
\* (except Exception as e: logger.error), and stop() in its finally lets
\* none out.
StartRaises(failure) == FALSE

\* main(): sys.exit(1) when start() raised, else the return of main() ends
\* asyncio.run and the interpreter exits with 0.
ExitCode(raised) == IF raised THEN 1 ELSE 0

MainInit ==
    /\ db = EmptyDb
    /\ now = Now0
    /\ tasks = {}
    /\ arrivals = 0
    /\ pump = [PumpIdle EXCEPT !.pc = "created"]
    /\ cloud_sender = [is_connected |-> FALSE]
    /\ influx = [up |-> TRUE, inflight |-> {}, telemetry |-> {}, analytics |-> {}]
    /\ orch = [alive |-> TRUE, is_running |-> FALSE, shutdown_event |-> FALSE]
    /\ faults = 0
    /\ hist = NoHistory
    /\ opc = OpcIdle
    /\ life = LifeCreated
    /\ an = AnIdle
    /\ call = NoCall

\* start(): await self.initialize().  It succeeds, then is_running = True
\* and the three tasks are handed to asyncio.gather; or one of its steps
\* raises, then start() logs the error, runs stop() and returns.
Initialize ==
    /\ orch.alive /\ life.phase = "created"
    /\ \E failure \in {"none"} \cup InitFailures :
         IF failure = "none"
         THEN /\ influx.up
              /\ orch' = [orch EXCEPT !.is_running = TRUE]
              /\ pump' = PumpIdle
              /\ cloud_sender' = [is_connected |-> TRUE]
              /\ life' = [life EXCEPT !.phase = "running", !.health = "wait",
                                      !.started = TRUE]
         ELSE /\ orch' = [alive |-> FALSE, is_running |-> FALSE, shutdown_event |-> TRUE]
              /\ pump' = pump
              /\ cloud_sender' = [is_connected |-> FALSE]
              /\ life' = [life EXCEPT !.phase = "returned", !.init_failure = failure,
                                      !.stopped = TRUE,
                                      !.exit_code = ExitCode(StartRaises(failure))]
    /\ UNCHANGED <<an, call, db, now, tasks, arrivals, influx, faults, hist, opc>>

\* _health_monitor_loop: while self.is_running / shutdown_event.is_set(): break
HealthExit ==
    /\ orch.alive
    /\ life.health = "wait"
    /\ ~orch.is_running \/ orch.shutdown_event
    /\ life' = [life EXCEPT !.health = "stopped"]
    /\ UNCHANGED <<an, call, db, now, tasks, arrivals, pump, cloud_sender, influx, orch, faults,
                   hist, opc>>

\* start(): asyncio.gather has returned, finally: await self.stop(); main()
\* returns.
StartReturns ==
    /\ orch.alive /\ life.phase = "running"
    /\ pump.pc = "stopped" /\ life.health = "stopped" /\ opc.pc = "stopped"
    /\ orch' = [alive |-> FALSE, is_running |-> FALSE, shutdown_event |-> TRUE]
    /\ \E kept \in SUBSET opc.clients : opc' = opcua_stop(opc, kept)
    /\ cloud_sender' = [is_connected |-> FALSE]
    /\ life' = [life EXCEPT !.phase = "returned", !.stopped = TRUE,
                            !.exit_code = ExitCode(StartRaises("none"))]
    /\ UNCHANGED <<an, call, db, now, tasks, arrivals, pump, influx, faults, hist>>

MainNext ==
    \/ Initialize
    \/ Stop
    \/ CollectorStep
    \/ PumpReadTelemetry
    \/ PumpReadAnalytics
    \/ PumpExit
    \/ Maintenance
    \/ HealthExit
    \/ StartReturns

MainSpec == MainInit /\ [][MainNext]_vars

(***************************************************************************)
(* The analytics of one asset: the samples of the asset reach              *)
(* process_telemetry_point one at a time (the call has no await inside),   *)
(* and time passes between them.                                           *)
(***************************************************************************)
\* analytics_results = await processor.process_telemetry_point(point)
AnSample(point) ==
    /\ an.processed < MaxSamples
    /\ an' = process_telemetry_point(an, point)
    /\ UNCHANGED <<call, opc, life, db, now, tasks, arrivals, pump, cloud_sender, influx,
                   orch, faults, hist>>

\* A second passes.
AnTick ==
    /\ an.clock < MaxClock
    /\ an' = [an EXCEPT !.clock = @ + 1]
    /\ UNCHANGED <<call, opc, life, db, now, tasks, arrivals, pump, cloud_sender, influx,
                   orch, faults, hist>>

AnNext ==
    \/ \E point \in Samples : AnSample(point)
    \/ AnTick

AnSpec == Init /\ [][AnNext]_vars

(***************************************************************************)
(* One conversion or check applied to one input.                           *)
(***************************************************************************)
FnInit ==
    /\ db = EmptyDb
    /\ now = Now0
    /\ tasks = {}
    /\ arrivals = 0
    /\ pump = PumpIdle
    /\ cloud_sender = [is_connected |-> TRUE]
    /\ influx = [up |-> TRUE, inflight |-> {}, telemetry |-> {}, analytics |-> {}]
    /\ orch = [alive |-> TRUE, is_running |-> TRUE, shutdown_event |-> FALSE]
    /\ faults = 0
    /\ hist = NoHistory
    /\ opc = OpcIdle
    /\ life = LifeRunning
    /\ an = AnIdle
    /\ call \in Calls

\* save_telemetry_point, get_telemetry_batch, telemetry_to_point
CallTelemetryToPoint ==
    /\ call.fn = "telemetry_to_point" /\ ~call.done
    /\ call' = [call EXCEPT
                  !.done = TRUE,
                  !.result = telemetry_to_point(
                                 [value |-> loads_value(dumps_value(call.arg))])]
    /\ UNCHANGED <<an, opc, life, db, now, tasks, arrivals, pump, cloud_sender, influx,
                   orch, faults, hist>>

\* save_analytics_result, get_analytics_batch, analytics_to_point
CallAnalyticsToPoint ==
    /\ call.fn = "analytics_to_point" /\ ~call.done
    /\ call' = [call EXCEPT
                  !.done = TRUE,
                  !.result = analytics_to_point(analytics_row_dict(call.arg))]
    /\ UNCHANGED <<an, opc, life, db, now, tasks, arrivals, pump, cloud_sender, influx,
                   orch, faults, hist>>

\* security_policy = await self._negotiate_security_policy(endpoint, asset)
CallNegotiate ==
    /\ call.fn = "negotiate_security_policy" /\ ~call.done
    /\ call' = [call EXCEPT
                  !.done = TRUE,
                  !.result = negotiate_security_policy(
                                 call.arg.explicit_policy, call.arg.env_policy,
                                 call.arg.reachable, call.arg.endpoints)]
    /\ UNCHANGED <<an, opc, life, db, now, tasks, arrivals, pump, cloud_sender, influx,
                   orch, faults, hist>>

\* await self._load_configuration()
CallLoadConfiguration ==
    /\ call.fn = "load_configuration" /\ ~call.done
    /\ call' = [call EXCEPT !.done = TRUE, !.result = load_configuration(call.arg)]
    /\ UNCHANGED <<an, opc, life, db, now, tasks, arrivals, pump, cloud_sender, influx,
                   orch, faults, hist>>

\* maintenance_score = self.calculate_maintenance_score(tag, current_value,
\* z_score, trend)
CallMaintenanceScore ==
    /\ call.fn = "calculate_maintenance_score" /\ ~call.done
    /\ call' = [call EXCEPT
                  !.done = TRUE,
                  !.result = calculate_maintenance_score(
                                 call.arg.tag, call.arg.current_value,
                                 call.arg.z_score, call.arg.trend)]
    /\ UNCHANGED <<an, opc, life, db, now, tasks, arrivals, pump, cloud_sender, influx,
                   orch, faults, hist>>

\* save_telemetry_point(point) with point.value = call.arg, then the 'value'
\* of the row's dictionary in the list get_telemetry_batch returns.
CallGetTelemetryBatch ==
    /\ call.fn = "get_telemetry_batch" /\ ~call.done
    /\ call' = [call EXCEPT !.done = TRUE,
                            !.result = loads_value(dumps_value(call.arg))]
    /\ UNCHANGED <<an, opc, life, db, now, tasks, arrivals, pump, cloud_sender, influx,
                   orch, faults, hist>>

\* The client library calls handler.datachange_notification(event) with one
\* monitored item.
CallDatachangeNotification ==
    /\ call.fn = "datachange_notification" /\ ~call.done
    /\ call' = [call EXCEPT
                  !.done = TRUE,
                  !.result = datachange_notification(call.arg.node_mapping,
                                                     call.arg.item)]
    /\ UNCHANGED <<an, opc, life, db, now, tasks, arrivals, pump, cloud_sender, influx,
                   orch, faults, hist>>

FnNext ==
    \/ CallDatachangeNotification
    \/ CallGetTelemetryBatch
    \/ CallTelemetryToPoint
    \/ CallAnalyticsToPoint
    \/ CallNegotiate
    \/ CallLoadConfiguration
    \/ CallMaintenanceScore

FnSpec == FnInit /\ [][FnNext]_vars

(***************************************************************************)
(* The properties.                                                         *)
(***************************************************************************)
\* The rows of a table that mark_batch_processed(batch_id) and
\* delete_batch(batch_id) select: WHERE batch_id = ?
Selected(rows, batch_id) == {r.id : r \in {q \in rows : q.batch_id = batch_id}}

\* An upload cycle that reported success has ended.
CycleSucceeded == pump.pc = "wait" /\ pump.success = "true"

\* C1: when an upload cycle's write to the remote store succeeds (here: it was
\* even acknowledged, and no buffer operation failed), every row read into the
\* cycle's batch has been removed from the buffer by the time the cycle ends.
C1_ShippedRowsRemoved ==
    (CycleSucceeded /\ pump.async_result = "acked" /\ faults = 0)
        => /\ Ids(pump.telemetry_batch) \cap Ids(db.telemetry) = {}
           /\ Ids(pump.analytics_batch) \cap Ids(db.analytics) = {}

\* C2: no row is returned by the batch read more than once before it is
\* deleted (rows of a failed cycle and of an earlier run of the process are
\* not counted as returned).
C2_NoRowReturnedTwice ==
    [][/\ PumpReadTelemetry => Ids(pump'.telemetry_batch) \cap hist.returned_t = {}
       /\ PumpReadAnalytics => Ids(pump'.analytics_batch) \cap hist.returned_a = {}]_vars

\* C3: the batch_id of the cycle is assigned to the buffered rows the cycle
\* read, so that mark_batch_processed(batch_id) and delete_batch(batch_id)
\* select exactly those rows (those of them still buffered).
C3_BatchIdSelectsRowsRead ==
    pump.pc \in {"mark", "delete"}
        => /\ Selected(db.telemetry, pump.batch_id)
                = Ids(pump.telemetry_batch) \cap Ids(db.telemetry)
           /\ Selected(db.analytics, pump.batch_id)
                = Ids(pump.analytics_batch) \cap Ids(db.analytics)

\* C4: at-least-once delivery.  The store is in the end reachable for good and
\* the upload loop keeps running (FairSpec): every row in the buffer is in the
\* end part of a write the store has stored, unless it left the buffer (the
\* size cap evicted it).
C4_AtLeastOnceDelivery ==
    \A id \in 1..MaxPoints :
        /\ (id \in Ids(db.telemetry))
              ~> (id \in influx.telemetry \/ id \notin Ids(db.telemetry))
        /\ (id \in Ids(db.analytics))
              ~> (id \in influx.analytics \/ id \notin Ids(db.analytics))

\* C5: N samples were buffered while the store was unreachable, the store came
\* back and nothing was appended since: after ceil(N / buffer_batch_size)
\* successful upload cycles the buffer holds no sample.
C5_BurstDrained ==
    (/\ hist.burst > 0
     /\ hist.cycles >= CeilDiv(hist.burst, buffer_batch_size)
     /\ pump.pc = "wait")
        => db.telemetry = {}

\* The unprocessed rows at least as old as row r, r apart.
AsOldAs(rows, r) == {q \in Unprocessed(rows) : q.id # r.id /\ q.created_at <= r.created_at}

\* A batch read of the step returned rows, or there was none to return.
ReadTelemetryDone ==
    PumpReadTelemetry /\ (pump'.telemetry_batch # {} \/ Unprocessed(db.telemetry) = {})

ReadAnalyticsDone ==
    PumpReadAnalytics /\ (pump'.analytics_batch # {} \/ Unprocessed(db.analytics) = {})

C7_MarkAndDeleteOnlyAfterAck ==
    pump.pc \in {"mark", "delete"}
        => pump.success = "true" /\ pump.async_result = "acked"

\* C8: for every tag, the samples are appended in the order their
\* notifications arrived: along the insertion order (id) of one tag the sample
\* timestamps are non-decreasing.
C8_AppendedInArrivalOrder ==
    \A r1, r2 \in db.telemetry :
        (r1.tag = r2.tag /\ r1.id < r2.id) => r1.timestamp <= r2.timestamp

\* C9, as the spec states it: a save_batch that fails returns False and
\* persists nothing; one that returns True has all its rows persisted.
C9_SaveBatchAllOrNothing ==
    [][\A task \in tasks :
         /\ SaveBatchFail(task) => hist'.returned = "false" /\ db' = db
         /\ SaveBatchCommit(task) =>
              /\ hist'.returned = "true"
              /\ BatchTelemetryRows(db, task.telemetry_points, task.batch_id, now)
                    \subseteq db'.telemetry
              /\ BatchAnalyticsRows(db, task.analytics_results, task.batch_id, now)
                    \subseteq db'.analytics]_vars

\* C9, amended: a save_batch changes the database in one step only, its
\* commit.  One that fails returns False and leaves rows and counters as they
\* were.  One that returns True has counted all its rows and persisted all its
\* analytics rows; its sample rows are persisted too, unless the file is over
\* the cap after the commit: then the size check has evicted up to EvictLimit
\* of the oldest unprocessed samples, which can be rows of this batch.
C9_SaveBatchAtomicThenSizeCheck ==
    [][\A task \in tasks :
         /\ SaveBatchExecute(task) => db' = db
         /\ SaveBatchFail(task) => hist'.returned = "false" /\ db' = db
         /\ SaveBatchCommit(task) =>
              LET rows_t == BatchTelemetryRows(db, task.telemetry_points, task.batch_id, now)
                  rows_a == BatchAnalyticsRows(db, task.analytics_results, task.batch_id, now)
                  evicted == (db.telemetry \cup rows_t) \ db'.telemetry
              IN /\ hist'.returned = "true"
                 /\ rows_a \subseteq db'.analytics
                 /\ db'.buffer_metadata =
                       [total_telemetry_points |->
                            db.buffer_metadata.total_telemetry_points + Cardinality(rows_t),
                        total_analytics_records |->
                            db.buffer_metadata.total_analytics_records + Cardinality(rows_a)]
                 /\ db'.telemetry \subseteq db.telemetry \cup rows_t
                 /\ db'.st_size <= max_size_rows => evicted = {}
                 /\ Cardinality(evicted) <= EvictLimit
                 /\ \A r \in evicted :
                       /\ ~r.processed
                       /\ \A q \in Unprocessed(db'.telemetry) : r.created_at <= q.created_at]_vars

\* C9 happens: one save_batch has failed after another has returned True.
C9_OneFailedOneSaved == hist.returned = "false" /\ hist.saved # {}

\* C10: a reader that forms a batch (the upload loop: samples, then
\* analytics) sees none or all of the rows of a save_batch.  Only the cases
\* where no read failed, the size cap evicted nothing and no LIMIT cut a read
\* short are looked at.
C10_ReaderSeesNoneOrAll ==
    (/\ pump.pc = "test"
     /\ faults = 0
     /\ db.st_size <= max_size_rows
     /\ Cardinality(db.telemetry) <= buffer_batch_size
     /\ Cardinality(db.analytics) <= analytics_batch_size)
        => \A b \in hist.saved :
              LET t == b.t \cap Ids(pump.telemetry_batch)
                  a == b.a \cap Ids(pump.analytics_batch)
              IN (t = {} /\ a = {}) \/ (t = b.t /\ a = b.a)

\* An append of the step was committed.
AppendCommitted == Appends' > Appends

\* The step committed the append of one sample.
SampleCommitted == db'.sqlite_sequence.telemetry = db.sqlite_sequence.telemetry + 1

\* C11: the size check of an append never removes an unprocessed analytics
\* row while unprocessed samples remain: when it removes one, the buffer it
\* ran on (the rows before the append and the appended row) held no
\* unprocessed sample.
C11_AnalyticsKeptWhileSamplesRemain ==
    [][AppendCommitted =>
         \A r \in Unprocessed(db.analytics) :
            r.id \notin Ids(db'.analytics)
              => Unprocessed(db.telemetry) = {} /\ ~SampleCommitted]_vars

\* C12: the buffer is over its cap after an append and holds no processed
\* row: the size check removes exactly the min(EvictLimit, number of
\* unprocessed samples) oldest unprocessed samples, the appended one counted,
\* and no analytics row.
C12_EvictsOldestSamplesOnly ==
    [][(/\ AppendCommitted
        /\ db'.st_size > max_size_rows
        /\ \A r \in db.telemetry \cup db.analytics : ~r.processed)
        => LET appended == db'.sqlite_sequence.telemetry - db.sqlite_sequence.telemetry
               samples == Cardinality(db.telemetry) + appended
               kept == db'.telemetry
               dropped == db.telemetry \ db'.telemetry
               new_dropped == appended = 1
                              /\ db'.sqlite_sequence.telemetry \notin Ids(kept)
           IN /\ Ids(db.analytics) \subseteq Ids(db'.analytics)
              /\ Cardinality(kept) = samples - Min(EvictLimit, samples)
              /\ \A q \in kept : ~q.processed
                    /\ (q \in db.telemetry \/ q.id = db'.sqlite_sequence.telemetry)
              /\ \A r \in dropped : \A q \in kept : r.created_at <= q.created_at
              /\ new_dropped => \A q \in kept : now <= q.created_at]_vars

\* C12 happens: over the cap, no processed row, a sample evicted, every
\* analytics row ever appended still there.
C12_EvictedWithNothingProcessed ==
    /\ db.st_size > max_size_rows
    /\ \A r \in db.telemetry \cup db.analytics : ~r.processed /\ r.batch_id = NULL
    /\ Cardinality(db.telemetry) < db.sqlite_sequence.telemetry
    /\ db.telemetry # {}
    /\ Cardinality(db.analytics) = db.sqlite_sequence.analytics
    /\ db.analytics # {}

\* C13: the size of the buffer file is in the end, and stays, at most the cap
\* plus one append (here one row).  The file never shrinks, so this says that
\* it never is above that.
C13_SizeWithinCapPlusOneAppend == db.st_size <= max_size_rows + 1

\* C14: an append of a sample while the buffer is over its cap succeeds and
\* the appended sample is in the buffer afterwards (here: when every other
\* sample is older than it by the clock of created_at).
C14_AppendedSampleStored ==
    [][(/\ SampleCommitted
        /\ db.st_size > max_size_rows
        /\ \A q \in db.telemetry : q.created_at < now)
         => db'.sqlite_sequence.telemetry \in Ids(db'.telemetry)]_vars

(***************************************************************************)
(* The retry loop of one upload cycle.                                     *)
(***************************************************************************)
\* A step of _send_batch_with_retry in a process that is not being killed.
RetryStep ==
    /\ orch.alive /\ orch'.alive
    /\ pump.pc \in {"test", "send"}
    /\ pump' # pump

\* C15: _send_batch_with_retry ends after at most max_retry_attempts attempts
\* (the attempt index never passes max_retry_attempts - 1 and every step of
\* the loop leaves the attempt for a later one, for the send of the same
\* attempt, or ends the loop); a send is only reached from the successful
\* ping of the same attempt; a failed ping hands nothing to the store and
\* uses up the attempt; the loop returns true exactly in the step in which
\* send_mixed_batch handed the batch over, and false only after the last
\* attempt, in a step that hands nothing over.
C15_RetryBoundedPingFirst ==
    [][/\ pump'.attempt <= max_retry_attempts - 1
       /\ (pump'.pc = "send" /\ pump' # pump)
            => pump.pc = "test" /\ pump'.attempt = pump.attempt
       /\ (RetryStep /\ pump.pc = "test")
            => /\ influx' = influx
               /\ \/ pump'.pc = "send"
                  \/ pump'.pc = "test" /\ pump'.attempt = pump.attempt + 1
                  \/ /\ pump'.pc = "wait" /\ pump'.success = "false"
                     /\ pump.attempt = max_retry_attempts - 1
       /\ (RetryStep /\ pump.pc = "send")
            => \/ /\ pump'.pc = "mark" /\ pump'.success = "true"
                  /\ Payload(pump) \in influx'.inflight
               \/ /\ influx' = influx
                  /\ \/ pump'.pc = "test" /\ pump'.attempt = pump.attempt + 1
                     \/ /\ pump'.pc = "wait" /\ pump'.success = "false"
                        /\ pump.attempt = max_retry_attempts - 1
       /\ (pump'.success = "true" /\ pump.success # "true")
            => pump.pc = "send" /\ Payload(pump) \in influx'.inflight
       /\ (pump'.success = "false" /\ pump.success # "false")
            => /\ pump.pc \in {"test", "send"}
               /\ pump.attempt = max_retry_attempts - 1
               /\ influx' = influx]_vars

\* C15 happens: the ping of the last attempt has passed after two failed
\* attempts, and the store is down.
C15_LastAttemptPinged ==
    /\ pump.pc = "send"
    /\ pump.attempt = max_retry_attempts - 1
    /\ ~influx.up

(***************************************************************************)
(* The connections to the assets.                                          *)
(***************************************************************************)
\* The last step of the client called client.connect() for the asset.
Attempted(o, asset_name) ==
    o.event \in {<<"connected", asset_name>>, <<"connect_failed", asset_name>>}

\* C16: an asset whose last opcua_max_retry_attempts connection attempts
\* have failed, with no successful one between them, is never attempted
\* again and stays out of the connected clients; connection_attempts counts
\* exactly these consecutive failures, and a successful connect sets it to 0.
C16_QuarantineIsFinal ==
    [][\A a \in Assets :
         /\ opc'.connection_attempts[a] = opc'.failures[a]
         /\ (opc.failures[a] >= opcua_max_retry_attempts /\ opc' # opc)
              => /\ ~Attempted(opc', a)
                 /\ opc'.failures[a] = opc.failures[a]
                 /\ a \notin opc'.clients
         /\ (opc'.event = <<"connected", a>> /\ opc' # opc)
              => opc'.connection_attempts[a] = 0 /\ a \in opc'.clients]_vars

\* C16 happens: a1 is quarantined and the client has just attempted a2.
C16_OtherAssetAttempted ==
    /\ opc.failures["a1"] >= opcua_max_retry_attempts
    /\ opc.last_connection_attempt["a1"] < opc.time
    /\ Attempted(opc, "a2")

\* C17: with a base delay of 1 s, the wait that _should_retry_connection
\* enforces before the retry that follows the k-th consecutive failure
\* (k = 1, 2, 3), before the jitter, is 1 s, 2 s, 4 s: base * 2^(k - 1).
C17_BackoffSchedule ==
    \A a \in Assets :
       (/\ opc.base_retry_delay = 10
        /\ opc.failures[a] \in 1..3
        /\ opc.failures[a] < opcua_max_retry_attempts)
         => calculate_retry_delay(opc, a, 0) = 10 * Pow2(opc.failures[a] - 1)

\* C18: when the probe of a live session fails, the asset is out of the
\* connected clients after the step, whatever client.disconnect() did.
C18_ProbeFailureTearsDown ==
    [][\A a \in Assets :
         (opc' # opc /\ opc'.event = <<"probe_failed", a>>) => a \notin opc'.clients]_vars

(***************************************************************************)
(* Shutdown and exit.                                                      *)
(***************************************************************************)
\* C19: once stop() has run for a signal, every task is on its way out (the
\* collector is told to stop or has stopped; nothing else will tell it
\* before start() returns), and when start() has returned every session is
\* disconnected and the store client is closed.
C19_StopReachesEveryTask ==
    /\ (life.stopped /\ life.phase = "running")
         => /\ opc.pc = "stopped" \/ ~opc.is_running
            /\ pump.pc = "stopped" \/ ~orch.is_running \/ orch.shutdown_event
            /\ life.health = "stopped" \/ ~orch.is_running \/ orch.shutdown_event
    /\ (life.phase = "returned" /\ life.started)
         => opc.clients = {} /\ ~cloud_sender.is_connected

\* C20: after a fatal failure of initialize() no task was started and the
\* exit code is not 0; the exit code 0 comes only after an initialize() that
\* succeeded.
C20_FatalInitExitsNonZero ==
    /\ life.init_failure # "none"
         => /\ ~life.started
            /\ life.phase = "returned" => life.exit_code > 0
    /\ life.exit_code = 0 => life.init_failure = "none"

(***************************************************************************)
(* The per-sample processing and the analytics.                            *)
(***************************************************************************)
\* C21: a sample whose analytics processing raised, or whose analytics result
\* could not be written, is still appended: every notification leaves a task
\* that is going to call save_telemetry_point for its sample, and a task that
\* has tried to save its analytics result goes on to save the sample.
C21_SampleBufferedDespiteAnalyticsError ==
    [][/\ arrivals' = arrivals + 1
          => \E task \in tasks' : task.point.timestamp = arrivals'
       /\ \A task \in tasks :
            (task.pc = "save_analytics" /\ task \notin tasks')
               => [task EXCEPT !.pc = "save_telemetry"] \in tasks']_vars

\* C22: the call of process_telemetry_point returns a predictive record only
\* with baseline_calculated set, and baseline_calculated is set only when
\* every monitored tag has a baseline.
C22_NoRecordBeforeBaselineReady ==
    /\ an.last.analytics.predictive # {} => an.predictive_analytics.baseline_calculated
    /\ an.predictive_analytics.baseline_calculated
         => \A t \in MonitoredTags : an.predictive_analytics.baseline_stats[t] # {}

\* A numeric sample of a monitored tag that has its baseline was processed
\* without a record, another tag having no baseline yet.
C22_BaselinedTagStillSilent ==
    /\ ~an.predictive_analytics.baseline_calculated
    /\ an.last.point.tag \in MonitoredTags
    /\ an.predictive_analytics.baseline_stats[an.last.point.tag] # {}
    /\ an.last.analytics.predictive = {}

\* C23: once baseline_calculated is set, no step clears it or changes the
\* baseline statistics of any tag.
C23_BaselineFrozenOnceReady ==
    [][an.predictive_analytics.baseline_calculated
         => /\ an'.predictive_analytics.baseline_calculated
            /\ an'.predictive_analytics.baseline_stats
                 = an.predictive_analytics.baseline_stats]_vars

\* A sample of a monitored tag was scored after the baseline was ready, its
\* window holding more values than the baseline was computed from.
C23_ScoredAfterReady ==
    /\ an.predictive_analytics.baseline_calculated
    /\ \E r \in an.last.analytics.predictive :
          r.baseline.count < Len(an.predictive_analytics.data_windows[r.tag])

\* C28: the OEE sub-processor returns a record for a sample exactly when the
\* sample was appended to the availability window and the window then holds
\* more than OeeMinPoints points.
C28_OeeRecordOnlyOnAvailabilityUpdate ==
    an.last.analytics.oee # {}
      <=> /\ an.last.point.tag \in availability_tags
          /\ Len(an.oee_analytics.availability_window) > OeeMinPoints

\* C29: a tick of the energy or energy-KPI sub-processor that fired set
\* last_aggregation to the time of the sample and emitted a record.
C29_TickEmitsRecord ==
    /\ an.last.energy_fired
         => /\ an.energy_analytics.last_aggregation = an.clock
            /\ an.last.analytics.energy # {}
    /\ an.last.kpi_fired
         => /\ an.energy_kpi_analytics.last_aggregation = an.clock
            /\ an.last.analytics.energy_kpis # {}

\* C30: once the baseline is ready, the baseline of every monitored tag is
\* the statistics of that tag's first BaselineSamples samples.
C30_BaselineIsFirstSamples ==
    an.predictive_analytics.baseline_calculated
      => \A t \in MonitoredTags :
            an.predictive_analytics.baseline_stats[t] = {Statistics(an.first[t])}

(***************************************************************************)
(* The conversions, the negotiation and the configuration.                 *)
(***************************************************************************)
\* C24: the point of a buffered sample carries exactly one value field, named
\* after the runtime type of the sample's value: value_float for a float or
\* an int, value_bool for a bool, value_string for a string.
C24_ValueFieldByRuntimeType ==
    (call.fn = "telemetry_to_point" /\ call.done)
      => /\ Cardinality(call.result.fields) = 1
         /\ \A f \in call.result.fields :
               f.name = CASE call.arg.type \in {"float", "int"} -> "value_float"
                          [] call.arg.type = "bool" -> "value_bool"
                          [] call.arg.type = "str" -> "value_string"

\* C25: the points made of an analytics row read from the buffer hold, for
\* every analytics type of the row, a point with one field per metric.
C25_RowMetricsBecomePoints ==
    (call.fn = "analytics_to_point" /\ call.done)
      => \A type \in call.arg.analytics :
            \E point \in call.result :
               /\ point.analytics_type = type
               /\ \A m \in Metrics(type) : \E f \in point.fields : f.key = m.key

\* C26: without an explicit and without an environment policy, and with the
\* endpoints of the server listed, the negotiation returns Basic256Sha256 if
\* some endpoint offers it, else Basic128Rsa15 if some endpoint offers it, else
\* None, whatever the order of the list.
C26_PreferenceIgnoresEndpointOrder ==
    (/\ call.fn = "negotiate_security_policy" /\ call.done
     /\ call.arg.explicit_policy = "" /\ call.arg.env_policy = ""
     /\ call.arg.reachable)
      => call.result =
           IF "Basic256Sha256" \in Range(call.arg.endpoints) THEN "Basic256Sha256"
           ELSE IF "Basic128Rsa15" \in Range(call.arg.endpoints) THEN "Basic128Rsa15"
           ELSE "None"

\* C27: a configuration that was loaded names in its sub-configurations only
\* tags that are keys of the asset's node_mapping.
C27_SubConfigTagsInNodeMapping ==
    (call.fn = "load_configuration" /\ call.done /\ call.result = "loaded")
      => call.arg.availability_tags \cup call.arg.vibration_tags
            \subseteq call.arg.node_mapping

(***************************************************************************)
(* The maintenance score.                                                  *)
(***************************************************************************)
\* The points of the scoring table for one band: the points of the first
\* limit, in the order of the table, that x exceeds.
RECURSIVE BandPoints(_, _)
BandPoints(x, table) ==
    IF table = << >> THEN 0
    ELSE IF x > Head(table)[1] THEN Head(table)[2]
    ELSE BandPoints(x, Tail(table))

\* C31: the maintenance score is the sum of the z-band, the trend band, the
\* threshold band and the criticality band of the scoring table, capped at
\* 100, and lies in 0..100.
C31_ScoreIsSumOfBands ==
    (call.fn = "calculate_maintenance_score" /\ call.done)
      => LET i == call.arg
             zband == BandPoints(i.z_score, <<<<30, 30>>, <<20, 25>>, <<10, 15>>, <<5, 10>>>>)
             tband == BandPoints(Abs(i.trend), <<<<10, 25>>, <<5, 18>>, <<1, 12>>>>)
             hband == IF i.tag \in DOMAIN maintenance_thresholds
                      THEN BandPoints(10 * i.current_value,
                                      <<<<10 * maintenance_thresholds[i.tag], 25>>,
                                        <<9 * maintenance_thresholds[i.tag], 18>>,
                                        <<8 * maintenance_thresholds[i.tag], 12>>>>)
                      ELSE 0
             cband == IF Keywords(i.tag) \cap {"battery", "soc", "temperature"} # {}
                      THEN BandPoints(i.current_value, <<<<80, 20>>, <<70, 15>>, <<60, 10>>>>)
                      ELSE IF "efficiency" \in Keywords(i.tag)
                      THEN BandPoints(0 - i.current_value,
                                      <<<<-70, 20>>, <<-80, 15>>, <<-85, 10>>>>)
                      ELSE 0
         IN /\ call.result = Min(100, zband + tband + hband + cband)
            /\ call.result \in 0..100

\* A sample that scores in all four bands at once reaches the cap.
C31_AllBandsAtTop ==
    /\ call.fn = "calculate_maintenance_score" /\ call.done
    /\ call.arg.tag \in DOMAIN maintenance_thresholds
    /\ Keywords(call.arg.tag) # {}
    /\ call.arg.z_score > 30 /\ call.arg.trend < -10
    /\ call.result = 100

\* The step in which a pending delete_processed_batches runs and returns.
CompactionReturns == call.fn = "delete_processed_batches" /\ call'.fn = "none"

\* C32: delete_processed_batches(older_than_hours) deletes only rows that
\* are processed and were created more than older_than_hours hours before
\* the call.
C32_CompactionDeletesOldProcessedOnly ==
    [][CompactionReturns =>
         \A r \in (db.telemetry \ db'.telemetry) \cup (db.analytics \ db'.analytics) :
            r.processed /\ r.created_at < now - call.arg]_vars

\* C39: after delete_processed_batches(older_than_hours) has run without a
\* database error, no processed row created more than older_than_hours hours
\* before remains in either table.
C39_CompactionComplete ==
    [][(CompactionReturns /\ faults' = faults) =>
         \A r \in db'.telemetry \cup db'.analytics :
            ~(r.processed /\ r.created_at < now - call.arg)]_vars

\* C35: the counters of buffer_metadata equal the numbers of rows of the two
\* tables.
C35_CountersEqualRowCounts ==
    /\ db.buffer_metadata.total_telemetry_points = Cardinality(db.telemetry)
    /\ db.buffer_metadata.total_analytics_records = Cardinality(db.analytics)

\* The rows of both tables.
Rows(d) == d.telemetry \cup d.analytics

\* C40 (first half): every row whose processed flag is true has a non-null
\* batch_id.
C40_ProcessedRowHasBatchId ==
    \A r \in Rows(db) : r.processed => r.batch_id # NULL

\* C40 (second half): a step that sets the processed flag of a row leaves
\* every row that shares its batch_id, in either table, processed.
C40_BatchMarkedAsAWhole ==
    [][\A r \in Rows(db), q \in Rows(db') :
          (/\ ~r.processed
           /\ [r EXCEPT !.processed = TRUE] \in Rows(db')
           /\ q.batch_id = r.batch_id)
            => q.processed]_vars

\* C40: both halves.
C40_ProcessedFlagFollowsBatch ==
    []C40_ProcessedRowHasBatchId /\ C40_BatchMarkedAsAWhole

\* A batch id whose sample row and analytics row have both been marked, next
\* to an unmarked row without a batch id.
C40_BatchOfTwoTablesMarked ==
    /\ \E r \in db.telemetry, q \in db.analytics :
          r.batch_id = q.batch_id /\ r.processed /\ q.processed
    /\ \E r \in Rows(db) : r.batch_id = NULL /\ ~r.processed

\* C38: the value get_telemetry_batch returns for a row equals the value
\* save_telemetry_point was given, with the same runtime type.
C38_ValueRoundTrip ==
    (call.fn = "get_telemetry_batch" /\ call.done) => call.result = call.arg

C36_NoConnectionAfterStop ==
    [][(life.stopped /\ orch.alive /\ orch'.alive) =>
         /\ cloud_sender'.is_connected => cloud_sender.is_connected
         /\ opc'.clients \subseteq opc.clients
         /\ \A a \in Assets : ~(opc' # opc /\ Attempted(opc', a))]_vars

\* The asset's session has a subscription with at least one monitored item.
Subscribed(o, a) == o.subscriptions[a] # <<>> /\ o.subscriptions[a][1] > 0

\* C37: an asset held in the connected clients has an active subscription
\* with at least one monitored tag: when the round of the loop comes to an
\* asset that is connected without one, the asset is disconnected or
\* subscribed by the end of that step.
C37_ConnectedAssetSubscribed ==
    [][\A a \in Assets :
         (/\ opc.pc = "check" /\ AssetSeq[opc.idx] = a
          /\ a \in opc.clients /\ ~Subscribed(opc, a)
          /\ opc' # opc)
           => a \notin opc'.clients \/ Subscribed(opc', a)]_vars

\* C33: a notification yields a sample whose tag is the configured tag name
\* of the node the notifying monitored item was subscribed for.
C33_NotificationTagIsSubscribedTag ==
    (call.fn = "datachange_notification" /\ call.done)
      => call.result = call.arg.node_mapping[call.arg.k].tag

====
